---------------------------- MODULE Spec2Model ----------------------------
(***************************************************************************)
(* A model of the Peanut interpreter (src/Dist/peanut.py): the runtime     *)
(* values and their operator surface, the RTResult channel, the symbol     *)
(* tables and contexts, function application and the tree-walking          *)
(* visitors, and the entry point run.                                      *)
(*                                                                         *)
(* Representation.  A Python object reference that the code shares and     *)
(* mutates (a list held by Array values, a SymbolTable, a Context) is an   *)
(* index into a heap sequence of the state.  Runtime values are records    *)
(* of one shape; positions (pos_start/pos_end) only feed error messages    *)
(* and are left out of values and nodes.  A Python exception that the      *)
(* code does not catch is the outcome exc # "" and propagates to the       *)
(* caller of run.  Numbers are exact rationals num/den, py telling the     *)
(* Python type of the payload (int, float, str).                           *)
(***************************************************************************)
EXTENDS Integers, Sequences, FiniteSets, TLC

VARIABLES
    tables,      \* heap of SymbolTable objects; 1 is global_symbol_table, 2 locked_symbol_table
    contexts,    \* heap of Context objects
    lists,       \* heap of Python lists held by Array.elements
    last,        \* what the last call of run returned (or raised)
    runs,        \* number of run calls made
    rts          \* a pool of RTResult objects

vars == <<tables, contexts, lists, last, runs, rts>>

-----------------------------------------------------------------------------
(* Bounds *)

MaxRuns == 2
NumResults == 2

-----------------------------------------------------------------------------
(* Runtime values *)

NoNode == [type |-> "None"]

\* Python's None
None == [kind |-> "None", num |-> 0, den |-> 1, py |-> "none", str |-> <<>>,
         ref |-> 0, name |-> "", fn |-> NoNode, context |-> 0]

\* A Python bool (the flags the symbol table keeps), as distinct from Bool values
PyBool(b) == [None EXCEPT !.kind = "PyBool", !.num = IF b THEN 1 ELSE 0]

Number(n) == [None EXCEPT !.kind = "Number", !.py = "int", !.num = n]

\* Number(x) for a Python float num/den
NumberFloat(n, d) == [None EXCEPT !.kind = "Number", !.py = "float", !.num = n, !.den = d]

\* Number(x) for a Python str x: populate_args and inputNumber build such values
NumberStr(s) == [None EXCEPT !.kind = "Number", !.py = "str", !.str = s]

String(s) == [None EXCEPT !.kind = "String", !.str = s]

Array(listRef) == [None EXCEPT !.kind = "Array", !.ref = listRef]

Bool(b) == [None EXCEPT !.kind = "Bool", !.py = "int", !.num = b]

Function(name, node) ==
    [None EXCEPT !.kind = "Function",
                 !.name = IF name = "" THEN "<anonymous>" ELSE name,
                 !.fn = node]

BuiltInFunction(name) == [None EXCEPT !.kind = "BuiltIn", !.name = name]

set_context(v, c) == [v EXCEPT !.context = c]

Number_null == Number(0)
Number_false == Number(0)
Number_true == Number(1)
Number_infinity == [None EXCEPT !.kind = "Number", !.py = "inf", !.num = 1]
Number_negative_infinity == [None EXCEPT !.kind = "Number", !.py = "inf", !.num = -1]

\* String.no_return: the text "No Return Value, ignore this!", kept as one symbol
String_no_return == String(<<"No Return Value, ignore this!">>)

\* bool(v) of a Python object: String defines __len__, the other values define
\* neither __bool__ nor __len__ and are true
Truthy(v) ==
    CASE v.kind = "None" -> FALSE
      [] v.kind = "PyBool" -> v.num = 1
      [] v.kind = "String" -> Len(v.str) > 0
      [] OTHER -> TRUE

-----------------------------------------------------------------------------
(* Errors *)

NoError == [error_name |-> "", details |-> ""]
RTError(details) == [error_name |-> "Runtime Error", details |-> details]
InvalidSyntaxError(details) == [error_name |-> "Invalid Syntax", details |-> details]

IsError(e) == e.error_name # ""

-----------------------------------------------------------------------------
(* RTResult *)

RTResult ==
    [value |-> None, error |-> NoError, func_return_value |-> None,
     loop_should_continue |-> FALSE, loop_should_break |-> FALSE,
     to_reverse_count |-> 0]

reset(self) == RTResult

\* register returns res.value; the fields are copied into self
register(self, res) ==
    [self EXCEPT !.error = res.error,
                 !.func_return_value = res.func_return_value,
                 !.loop_should_continue = res.loop_should_continue,
                 !.loop_should_break = res.loop_should_break]

success(self, value) == [reset(self) EXCEPT !.value = value]

success_return_keep(self, value) == [self EXCEPT !.func_return_value = value]

success_return(self, value) == [reset(self) EXCEPT !.func_return_value = value]

success_continue(self) == [reset(self) EXCEPT !.loop_should_continue = TRUE]

success_break(self) == [reset(self) EXCEPT !.loop_should_break = TRUE]

failure(self, error) == [reset(self) EXCEPT !.error = error]

should_return(self) ==
    \/ IsError(self.error)
    \/ Truthy(self.func_return_value)
    \/ self.loop_should_continue
    \/ self.loop_should_break

-----------------------------------------------------------------------------
(* Exact arithmetic on the payload of Numbers *)

Abs(n) == IF n < 0 THEN -n ELSE n

RECURSIVE Gcd(_, _)
Gcd(a, b) == IF b = 0 THEN a ELSE Gcd(b, a % b)

\* the rational n/d (d # 0) in lowest terms with a positive denominator
Rat(n, d) ==
    LET g == Gcd(Abs(n), Abs(d))
        s == IF d < 0 THEN -1 ELSE 1
    IN [num |-> (s * n) \div g, den |-> (s * d) \div g]

\* math.floor and int() of a rational with positive denominator
Floor(n, d) == n \div d
Trunc(n, d) == IF n >= 0 THEN n \div d ELSE -((-n) \div d)

RECURSIVE IntPow(_, _)
IntPow(b, e) == IF e = 0 THEN 1 ELSE b * IntPow(b, e - 1)

IsNum(v) == v.kind = "Number"
\* a Number (or Bool) whose payload is a Python int or float
Finite(v) == v.py \in {"int", "float"}

\* the Python type of the result of + - * on two finite payloads
Join(a, b) == IF a.py = "int" /\ b.py = "int" THEN "int" ELSE "float"

MkNumber(py, r) ==
    [None EXCEPT !.kind = "Number", !.py = py, !.num = r.num, !.den = r.den]

Less(a, b) == a.num * b.den < b.num * a.den
Equal(a, b) == a.num * b.den = b.num * a.den

-----------------------------------------------------------------------------
(* The operator surface of values.  Every operator below is one method name  *)
(* of the Value classes, dispatched on the class of self as Python's method  *)
(* resolution does.  The outcome is (result, error) plus an uncaught Python  *)
(* exception and the list heap, which Array methods write.                   *)

OpRes(result, error, exc, ls) ==
    [result |-> result, error |-> error, exc |-> exc, lists |-> ls]

Ok(result, ls) == OpRes(result, NoError, "", ls)
Err(error, ls) == OpRes(None, error, "", ls)
Raise(exc, ls) == OpRes(None, NoError, exc, ls)

illegal_operation(self, other) == RTError("Illegal operation")

\* The methods each class defines or inherits.  Value names its defaults
\* subbed_by, multed_by, dived_by, powed_by and modded, String names repetition
\* multed_by; the interpreter calls subtracted_by, multiplied_by, divided_by,
\* pow and modded_by.
Inherited ==
    {"added_to", "get_comparison_eq", "get_comparison_ne", "get_comparison_lt",
     "get_comparison_gt", "get_comparison_lte", "get_comparison_gte",
     "anded_by", "ored_by", "notted"}

Methods(kind) ==
    CASE kind = "Number" ->
            Inherited \cup {"subtracted_by", "multiplied_by", "divided_by", "modded_by", "pow"}
      [] kind = "String" -> Inherited \cup {"divided_by"}
      [] kind = "Array" -> Inherited \cup {"subtracted_by", "multiplied_by", "divided_by"}
      [] kind \in {"Bool", "Function", "BuiltIn"} -> Inherited
      [] OTHER -> {}

\* Python's sequence index: i in -n .. n-1 names an element, anything else raises
IndexOk(i, n) == i.py = "int" /\ i.num >= -n /\ i.num < n
PyIndex(i, n) == IF i.num < 0 THEN i.num + n + 1 ELSE i.num + 1

RemoveAt(s, k) == [j \in 1..(Len(s) - 1) |-> IF j < k THEN s[j] ELSE s[j + 1]]

added_to(ls, self, other) ==
    CASE self.kind = "Number" ->
            IF ~IsNum(other) THEN Err(illegal_operation(self, other), ls)
            ELSE IF Finite(self) /\ Finite(other)
            THEN Ok(set_context(MkNumber(Join(self, other),
                        Rat(self.num * other.den + other.num * self.den, self.den * other.den)),
                        self.context), ls)
            ELSE IF self.py = "str" /\ other.py = "str"
            THEN Ok(set_context(NumberStr(self.str \o other.str), self.context), ls)
            ELSE IF "str" \in {self.py, other.py} /\ Finite(self) # Finite(other)
            THEN Raise("TypeError", ls)
            ELSE Raise("Unmodelled", ls)
      [] self.kind = "String" ->
            IF other.kind = "String"
            THEN Ok(set_context(String(self.str \o other.str), self.context), ls)
            ELSE Err(illegal_operation(self, other), ls)
      [] self.kind = "Array" ->
            \* new_list = self.copy() shares self.elements; append writes that list
            Ok(self, [ls EXCEPT ![self.ref] = Append(@, other)])
      [] OTHER -> Err(illegal_operation(self, other), ls)

subtracted_by(ls, self, other) ==
    CASE self.kind = "Number" ->
            IF ~IsNum(other) THEN Err(illegal_operation(self, other), ls)
            ELSE IF Finite(self) /\ Finite(other)
            THEN Ok(set_context(MkNumber(Join(self, other),
                        Rat(self.num * other.den - other.num * self.den, self.den * other.den)),
                        self.context), ls)
            ELSE IF "str" \in {self.py, other.py} THEN Raise("TypeError", ls)
            ELSE Raise("Unmodelled", ls)
      [] self.kind = "Array" ->
            IF ~IsNum(other) THEN Err(illegal_operation(self, other), ls)
            ELSE IF IndexOk(other, Len(ls[self.ref]))
            THEN Ok(self, [ls EXCEPT ![self.ref] =
                        RemoveAt(@, PyIndex(other, Len(ls[self.ref])))])
            ELSE Err(RTError("Element at this index could not be removed because the index is out of bounds"), ls)
      [] OTHER -> Raise("AttributeError", ls)

multiplied_by(ls, self, other) ==
    CASE self.kind = "Number" ->
            IF ~IsNum(other) THEN Err(illegal_operation(self, other), ls)
            ELSE IF Finite(self) /\ Finite(other)
            THEN Ok(set_context(MkNumber(Join(self, other),
                        Rat(self.num * other.num, self.den * other.den)), self.context), ls)
            ELSE Raise("Unmodelled", ls)
      [] self.kind = "Array" ->
            IF other.kind = "Array"
            THEN Ok(self, [ls EXCEPT ![self.ref] = @ \o ls[other.ref]])
            ELSE Err(illegal_operation(self, other), ls)
      [] OTHER -> Raise("AttributeError", ls)

divided_by(ls, self, other) ==
    CASE self.kind = "Number" ->
            IF ~IsNum(other) THEN Err(illegal_operation(self, other), ls)
            ELSE IF Finite(other) /\ other.num = 0 THEN Err(RTError("Division by zero"), ls)
            ELSE IF Finite(self) /\ Finite(other)
            THEN Ok(set_context(MkNumber("float",
                        Rat(self.num * other.den, self.den * other.num)), self.context), ls)
            ELSE IF "str" \in {self.py, other.py} THEN Raise("TypeError", ls)
            ELSE Raise("Unmodelled", ls)
      [] self.kind = "String" ->
            IF ~IsNum(other) THEN Err(illegal_operation(self, other), ls)
            ELSE IF IndexOk(other, Len(self.str))
            THEN Ok(set_context(String(<<self.str[PyIndex(other, Len(self.str))]>>),
                                self.context), ls)
            ELSE Err(RTError("Character at this index could not be obtained because the index is out of bounds"), ls)
      [] self.kind = "Array" ->
            IF ~IsNum(other) THEN Err(illegal_operation(self, other), ls)
            ELSE IF IndexOk(other, Len(ls[self.ref]))
            THEN Ok(ls[self.ref][PyIndex(other, Len(ls[self.ref]))], ls)
            ELSE Err(RTError("Element at this index could not be obtained because the index is out of bounds"), ls)
      [] OTHER -> Raise("AttributeError", ls)

modded_by(ls, self, other) ==
    CASE self.kind = "Number" ->
            IF ~IsNum(other) THEN Err(illegal_operation(self, other), ls)
            ELSE IF Finite(other) /\ other.num = 0 THEN Err(RTError("Division by zero"), ls)
            ELSE IF Finite(self) /\ Finite(other)
            THEN LET q == Rat(self.num * other.den, self.den * other.num)
                     f == Floor(q.num, q.den)
                 IN Ok(set_context(MkNumber(Join(self, other),
                        Rat(self.num * other.den - other.num * f * self.den,
                            self.den * other.den)), self.context), ls)
            ELSE IF "str" \in {self.py, other.py} THEN Raise("TypeError", ls)
            ELSE Raise("Unmodelled", ls)
      [] OTHER -> Raise("AttributeError", ls)

pow(ls, self, other) ==
    CASE self.kind = "Number" ->
            IF ~IsNum(other) THEN Err(illegal_operation(self, other), ls)
            ELSE IF Finite(self) /\ Finite(other) /\ other.den = 1
            THEN IF other.num >= 0
                 THEN Ok(set_context(MkNumber(Join(self, other),
                            Rat(IntPow(self.num, other.num), IntPow(self.den, other.num))),
                            self.context), ls)
                 ELSE IF self.num = 0 THEN Raise("ZeroDivisionError", ls)
                 ELSE Ok(set_context(MkNumber("float",
                            Rat(IntPow(self.den, -other.num), IntPow(self.num, -other.num))),
                            self.context), ls)
            ELSE IF "str" \in {self.py, other.py} THEN Raise("TypeError", ls)
            ELSE Raise("Unmodelled", ls)
      [] OTHER -> Raise("AttributeError", ls)

\* int(x == y) and the like on payloads; a str payload compares by its text
PyInt(b) == IF b THEN 1 ELSE 0

SameValue(self, other) ==
    IF Finite(self) /\ Finite(other) THEN Equal(self, other)
    ELSE self.py = other.py /\ self.str = other.str /\ self.num = other.num

get_comparison_eq(ls, self, other) ==
    CASE self.kind = "Number" ->
            IF IsNum(other)
            THEN Ok(set_context(Bool(PyInt(SameValue(self, other))), self.context), ls)
            ELSE Ok(set_context(Bool(0), self.context), ls)
      [] self.kind = "String" ->
            IF other.kind = "String"
            THEN Ok(set_context(Bool(PyInt(self.str = other.str)), self.context), ls)
            ELSE Ok(set_context(Bool(0), self.context), ls)
      [] self.kind = "Bool" ->
            IF other.kind = "Bool"
            THEN Ok(set_context(Bool(PyInt(self.num = other.num)), self.context), ls)
            ELSE Ok(set_context(Bool(0), self.context), ls)
      [] OTHER -> Err(illegal_operation(self, other), ls)

get_comparison_ne(ls, self, other) ==
    CASE self.kind = "Number" ->
            IF IsNum(other)
            THEN Ok(set_context(Bool(PyInt(~SameValue(self, other))), self.context), ls)
            ELSE Ok(set_context(Bool(1), self.context), ls)
      [] self.kind = "String" ->
            IF other.kind = "String"
            THEN Ok(set_context(Bool(PyInt(self.str # other.str)), self.context), ls)
            ELSE Ok(set_context(Bool(1), self.context), ls)
      [] self.kind = "Bool" ->
            IF other.kind = "Bool"
            THEN Ok(set_context(Bool(PyInt(self.num # other.num)), self.context), ls)
            ELSE Ok(set_context(Bool(1), self.context), ls)
      [] OTHER -> Err(illegal_operation(self, other), ls)

\* get_comparison_lt, _gt, _lte, _gte: Number with Number, illegal otherwise
get_comparison_ord(rel, ls, self, other) ==
    IF self.kind = "Number" /\ IsNum(other)
    THEN IF Finite(self) /\ Finite(other)
         THEN Ok(set_context(Bool(PyInt(
                    CASE rel = "lt" -> Less(self, other)
                      [] rel = "gt" -> Less(other, self)
                      [] rel = "lte" -> ~Less(other, self)
                      [] OTHER -> ~Less(self, other))), self.context), ls)
         ELSE IF "str" \in {self.py, other.py} /\ Finite(self) # Finite(other)
         THEN Raise("TypeError", ls)
         ELSE Raise("Unmodelled", ls)
    ELSE Err(illegal_operation(self, other), ls)

\* Python's x and y, x or y on payloads, then int() of the chosen payload
anded_by(ls, self, other) ==
    IF (self.kind = "Number" /\ IsNum(other)) \/ (self.kind = "Bool" /\ other.kind = "Bool")
    THEN IF Finite(self) /\ Finite(other)
         THEN LET chosen == IF self.num = 0 THEN self ELSE other
              IN Ok(set_context(Bool(Trunc(chosen.num, chosen.den)), self.context), ls)
         ELSE Raise("Unmodelled", ls)
    ELSE Err(illegal_operation(self, other), ls)

ored_by(ls, self, other) ==
    IF (self.kind = "Number" /\ IsNum(other)) \/ (self.kind = "Bool" /\ other.kind = "Bool")
    THEN IF Finite(self) /\ Finite(other)
         THEN LET chosen == IF self.num # 0 THEN self ELSE other
              IN Ok(set_context(Bool(Trunc(chosen.num, chosen.den)), self.context), ls)
         ELSE Raise("Unmodelled", ls)
    ELSE Err(illegal_operation(self, other), ls)

\* number.notted() is called without an argument: Value.notted(self, other)
\* then raises TypeError, Number.notted and Bool.notted default other to None
notted(ls, self) ==
    IF self.kind \in {"Number", "Bool"}
    THEN Ok(set_context(Bool(IF Finite(self) /\ self.num = 0 THEN 1 ELSE 0), self.context), ls)
    ELSE Raise("TypeError", ls)

\* Value.is_true and its overrides
is_true(self) ==
    CASE self.kind = "Number" -> ~(Finite(self) /\ self.num = 0)
      [] self.kind = "String" -> Len(self.str) > 0
      [] self.kind = "Bool" -> self.num = 1
      [] OTHER -> FALSE

\* the dispatch of visit_BinaryOpNode on the operator token
BinaryOps ==
    {"PLUS", "MINUS", "MUL", "DIV", "POW", "MOD", "EE", "NE", "LT", "GT", "LTE", "GTE",
     "and", "or"}

MethodOf(op) ==
    CASE op = "PLUS" -> "added_to"
      [] op = "MINUS" -> "subtracted_by"
      [] op = "MUL" -> "multiplied_by"
      [] op = "DIV" -> "divided_by"
      [] op = "POW" -> "pow"
      [] op = "MOD" -> "modded_by"
      [] op = "EE" -> "get_comparison_eq"
      [] op = "NE" -> "get_comparison_ne"
      [] op = "LT" -> "get_comparison_lt"
      [] op = "GT" -> "get_comparison_gt"
      [] op = "LTE" -> "get_comparison_lte"
      [] op = "GTE" -> "get_comparison_gte"
      [] op = "and" -> "anded_by"
      [] OTHER -> "ored_by"

BinaryDispatch(op, ls, left, right) ==
    IF MethodOf(op) \notin Methods(left.kind) THEN Raise("AttributeError", ls)
    ELSE CASE op = "PLUS" -> added_to(ls, left, right)
           [] op = "MINUS" -> subtracted_by(ls, left, right)
           [] op = "MUL" -> multiplied_by(ls, left, right)
           [] op = "DIV" -> divided_by(ls, left, right)
           [] op = "POW" -> pow(ls, left, right)
           [] op = "MOD" -> modded_by(ls, left, right)
           [] op = "EE" -> get_comparison_eq(ls, left, right)
           [] op = "NE" -> get_comparison_ne(ls, left, right)
           [] op = "LT" -> get_comparison_ord("lt", ls, left, right)
           [] op = "GT" -> get_comparison_ord("gt", ls, left, right)
           [] op = "LTE" -> get_comparison_ord("lte", ls, left, right)
           [] op = "GTE" -> get_comparison_ord("gte", ls, left, right)
           [] op = "and" -> anded_by(ls, left, right)
           [] OTHER -> ored_by(ls, left, right)

\* the dispatch of visit_UnaryOpNode: '-' multiplies by Number(-1), 'not' calls
\* notted(), '+' leaves the operand as it is
UnaryDispatch(op, ls, number) ==
    CASE op = "MINUS" ->
            IF "multiplied_by" \in Methods(number.kind)
            THEN multiplied_by(ls, number, Number(-1))
            ELSE Raise("AttributeError", ls)
      [] op = "not" ->
            IF "notted" \in Methods(number.kind) THEN notted(ls, number)
            ELSE Raise("AttributeError", ls)
      [] OTHER -> Ok(number, ls)

-----------------------------------------------------------------------------
(* Symbol tables and contexts *)

\* dict[key] = value
Put(d, key, value) == [k \in (DOMAIN d) \cup {key} |-> IF k = key THEN value ELSE d[k]]

\* dict.get(key, None); the flag dictionaries hold Python bools, var_types a
\* type name or None
Get(d, key) == IF key \in DOMAIN d THEN d[key] ELSE None

EmptyDict == [k \in {} |-> None]

SymbolTable(parent) ==
    [symbols |-> EmptyDict, symbols_should_scope |-> EmptyDict,
     symbols_are_vars |-> EmptyDict, symbols_are_strict_vars |-> EmptyDict,
     var_types |-> EmptyDict, parent |-> parent]

RECURSIVE SymbolTable_get(_, _, _)
SymbolTable_get(tabs, self, name) ==
    LET value == Get(tabs[self].symbols, name)
    IN IF value.kind = "None" /\ tabs[self].parent # 0
       THEN SymbolTable_get(tabs, tabs[self].parent, name)
       ELSE value

\* getScope, isStrict and getType read their own dictionary and, when the name
\* is not in it, return parent.get(name): the parent's value of the name
getScope(tabs, self, name) ==
    LET should_scope == Get(tabs[self].symbols_should_scope, name)
    IN IF should_scope.kind = "None" /\ tabs[self].parent # 0
       THEN SymbolTable_get(tabs, tabs[self].parent, name)
       ELSE should_scope

isStrict(tabs, self, name) ==
    LET strict_typed == Get(tabs[self].symbols_are_strict_vars, name)
    IN IF strict_typed.kind = "None" /\ tabs[self].parent # 0
       THEN SymbolTable_get(tabs, tabs[self].parent, name)
       ELSE strict_typed

getType(tabs, self, name) ==
    LET type_ == Get(tabs[self].var_types, name)
    IN IF type_.kind = "None" /\ tabs[self].parent # 0
       THEN SymbolTable_get(tabs, tabs[self].parent, name)
       ELSE type_

\* a type name held in var_types
TypeName(t) == [None EXCEPT !.kind = "PyStr", !.name = t]

SymbolTable_set(tabs, self, name, value, is_var, is_scoped, is_strict, type_) ==
    [tabs EXCEPT ![self] =
        [@ EXCEPT !.symbols = Put(@, name, value),
                  !.symbols_should_scope = Put(@, name, PyBool(is_scoped)),
                  !.symbols_are_vars = Put(@, name, PyBool(is_var)),
                  !.symbols_are_strict_vars = Put(@, name, PyBool(is_strict)),
                  !.var_types = Put(@, name, type_)]]

\* set(name, value) with the defaults of its keyword parameters
SymbolTable_set_plain(tabs, self, name, value) ==
    SymbolTable_set(tabs, self, name, value, FALSE, FALSE, FALSE, None)

GLOBAL == 1
LOCKED == 2

Context(display_name, parent, symbol_table) ==
    [display_name |-> display_name, parent |-> parent, symbol_table |-> symbol_table]

RECURSIVE SetAll(_, _, _)
SetAll(tabs, self, bindings) ==
    IF bindings = <<>> THEN tabs
    ELSE SetAll(SymbolTable_set_plain(tabs, self, bindings[1][1], bindings[1][2]),
                self, Tail(bindings))

\* the module-level global_symbol_table.set calls
GlobalBindings ==
    << <<"NO_RETURN", String_no_return>>, <<"ZERO", Number_null>>,
       <<"FALSE_VALUE", Number_false>>, <<"TRUE_VALUE", Number_true>>,
       <<"false", Number_false>>, <<"true", Number_true>>,
       <<"INFINITY", Number_infinity>>, <<"NEGATIVE_INF", Number_negative_infinity>>,
       <<"print", BuiltInFunction("print")>>,
       <<"printReturn", BuiltInFunction("print_return")>>,
       <<"input", BuiltInFunction("input")>>,
       <<"inputNumber", BuiltInFunction("input_int")>>,
       <<"cls", BuiltInFunction("clear")>>,
       <<"isNumber", BuiltInFunction("is_number")>>,
       <<"isString", BuiltInFunction("is_string")>>,
       <<"isArray", BuiltInFunction("is_array")>>,
       <<"isFunction", BuiltInFunction("is_function")>>,
       <<"typeof", BuiltInFunction("typeof")>>,
       <<"append", BuiltInFunction("append")>>,
       <<"removeIndex", BuiltInFunction("remove")>>,
       <<"concat", BuiltInFunction("concat")>>,
       <<"length", BuiltInFunction("len")>>,
       <<"time", BuiltInFunction("time")>>,
       <<"b64Encode", BuiltInFunction("base64_encode")>>,
       <<"b64Decode", BuiltInFunction("base64_decode")>>,
       <<"toUnicode", BuiltInFunction("number_to_unicode")>>,
       <<"fromUnicode", BuiltInFunction("unicode_to_number")>>,
       <<"formatNumber", BuiltInFunction("format_number")>>,
       <<"run", BuiltInFunction("run")>>,
       <<"use", BuiltInFunction("use")>>,
       <<"read", BuiltInFunction("read")>> >>

\* the table heap after the module is loaded: global_symbol_table with its
\* bindings, and locked_symbol_table
InitTables == SetAll(<<SymbolTable(0), SymbolTable(0)>>, GLOBAL, GlobalBindings)

-----------------------------------------------------------------------------
(* Tokens and nodes.  A token's value is kept as the payload the interpreter *)
(* wraps (an int or float for INT/FLOAT, the text for STRING); name is the   *)
(* lexeme of an identifier or keyword; text is str(value) of a FLOAT.        *)

Token(type_, value, name, text) ==
    [type |-> type_, value |-> value, name |-> name, text |-> text]

TokInt(n) == Token("INT", Number(n), "", <<>>)
TokFloat(n, d, text) == Token("FLOAT", NumberFloat(n, d), "", text)
TokString(s) == Token("STRING", String(s), "", <<>>)
TokIdentifier(name) == Token("IDENTIFIER", None, name, <<>>)

NumberNode(tok) == [type |-> "NumberNode", tok |-> tok]
StringNode(tok) == [type |-> "StringNode", tok |-> tok]
ArrayNode(element_nodes) == [type |-> "ArrayNode", element_nodes |-> element_nodes]
\* the value_node the parser gives a declaration without '=' is Number.null itself
NumberNullNode == [type |-> "Number.null"]
VarAssignNode(var_name, value_node) ==
    [type |-> "VarAssignNode", var_name |-> var_name, value_node |-> value_node]
ScopedAssignNode(var_name, value_node) ==
    [type |-> "ScopedAssignNode", var_name |-> var_name, value_node |-> value_node]
StrictAssignNode(var_name, value_node, var_type) ==
    [type |-> "StrictAssignNode", var_name |-> var_name, value_node |-> value_node,
     var_type |-> var_type]
AccessNode(var_name) == [type |-> "AccessNode", var_name |-> var_name]
BinaryOpNode(left_node, op, right_node) ==
    [type |-> "BinaryOpNode", left_node |-> left_node, op |-> op, right_node |-> right_node]
UnaryOpNode(op, node) == [type |-> "UnaryOpNode", op |-> op, node |-> node]
ForNode(var_name, start_value_node, end_value_node, step_value_node, body_node, should_return_null) ==
    [type |-> "ForNode", var_name |-> var_name, start_value_node |-> start_value_node,
     end_value_node |-> end_value_node, step_value_node |-> step_value_node,
     body_node |-> body_node, should_return_null |-> should_return_null]
\* cases holds one record per if / elif branch; else_case is NoNode when the
\* text has no else
IfCase(condition, expr, should_return_null) ==
    [condition |-> condition, expr |-> expr, should_return_null |-> should_return_null]
ElseCase(expr, should_return_null) ==
    [type |-> "else", expr |-> expr, should_return_null |-> should_return_null]
IfNode(cases, else_case) == [type |-> "IfNode", cases |-> cases, else_case |-> else_case]
WhileNode(condition_node, body_node, should_return_null) ==
    [type |-> "WhileNode", condition_node |-> condition_node, body_node |-> body_node,
     should_return_null |-> should_return_null]
\* var_name is "" for an anonymous function
FuncDefNode(var_name, arg_names, arg_defaults, body_node, should_auto_return) ==
    [type |-> "FuncDefNode", var_name |-> var_name, arg_names |-> arg_names,
     arg_defaults |-> arg_defaults, body_node |-> body_node,
     should_auto_return |-> should_auto_return]
CallNode(node_to_call, arg_nodes) ==
    [type |-> "CallNode", node_to_call |-> node_to_call, arg_nodes |-> arg_nodes]
\* node_to_return is NoNode for a bare return
ReturnNode(node_to_return) == [type |-> "ReturnNode", node_to_return |-> node_to_return]
ContinueNode == [type |-> "ContinueNode"]
BreakNode == [type |-> "BreakNode"]

-----------------------------------------------------------------------------
(* Function application *)

\* the state the visitors thread: the three heaps
St(tabs, ctxs, ls) == [tables |-> tabs, contexts |-> ctxs, lists |-> ls]

\* what a visitor or execute hands back: its RTResult, the heaps, and the
\* Python exception it raised, if any
R(res, st, exc) == [res |-> res, st |-> st, exc |-> exc]

\* K(x), with x computed once
With(x, K(_)) == K(x)

\* the idiom "value = res.register(r); if res.should_return(): return res" and
\* what follows it, K(res, r); an exception raised while r was computed
\* propagates
Then(res, r, K(_, _)) ==
    IF r.exc # "" THEN R(res, r.st, r.exc)
    ELSE IF should_return(register(res, r.res)) THEN R(register(res, r.res), r.st, "")
    ELSE K(register(res, r.res), r)

\* arg_defaults: the list of default tokens of a Function, None for a built-in
Defaults(toks) == [is_none |-> FALSE, toks |-> toks]
NoDefaults == [is_none |-> TRUE, toks |-> <<>>]

\* Value.copy of the subclasses: a new object with the same fields; Array.copy
\* hands the very list self.elements to the new Array
copy(self) == self

\* BaseFunction.generate_new_context: fails on new_context.parent.symbol_table
\* when the function value carries no context
generate_new_context(self, st) ==
    IF self.context = 0 THEN [exc |-> "AttributeError", st |-> st, context |-> 0]
    ELSE LET table == Len(st.tables) + 1
             ctx == Len(st.contexts) + 1
         IN [exc |-> "",
             st |-> [st EXCEPT
                        !.tables = Append(@, SymbolTable(st.contexts[self.context].symbol_table)),
                        !.contexts = Append(@, Context(self.name, self.context, table))],
             context |-> ctx]

\* len(arg_defaults) raises TypeError for a built-in, whose arg_defaults is None;
\* Python evaluates it only when len(args) < len(arg_names)
check_args(arg_names, arg_defaults, args) ==
    IF Len(args) > Len(arg_names)
    THEN R(failure(RTResult, RTError("too many args")), None, "")
    ELSE IF Len(args) < Len(arg_names)
    THEN IF arg_defaults.is_none THEN R(RTResult, None, "TypeError")
         ELSE IF Len(args) > Len(arg_defaults.toks)
         THEN R(failure(RTResult, RTError("too few args")), None, "")
         ELSE R(success(RTResult, None), None, "")
    ELSE R(success(RTResult, None), None, "")

DigitText == <<"0", "1", "2", "3", "4", "5", "6", "7", "8", "9">>

\* str(n) of a natural number
RECURSIVE NatText(_)
NatText(n) == IF n < 10 THEN <<DigitText[n + 1]>> ELSE NatText(n \div 10) \o <<DigitText[(n % 10) + 1]>>

\* bool(tok.value), which Token.__repr__ tests
TokenValueTruthy(tok) ==
    CASE tok.type \in {"INT", "FLOAT"} -> tok.value.num # 0
      [] tok.type = "STRING" -> Len(tok.value.str) > 0
      [] OTHER -> tok.name # ""

\* the text populate_args calls fixed: str(token) with "INT:", "STRING:" or
\* "FLOAT:" removed.  A token whose value is false prints as its type alone.
DefaultText(tok) ==
    IF ~TokenValueTruthy(tok) THEN <<tok.type>>
    ELSE CASE tok.type = "INT" -> NatText(tok.value.num)
           [] tok.type = "STRING" -> tok.value.str
           [] tok.type = "FLOAT" -> tok.text
           [] OTHER -> <<tok.type, ":", tok.name>>

\* BaseFunction.populate_args: chosen is arg_defaults when there are defaults and
\* args otherwise; args[i] raises IndexError when i is past the arguments
RECURSIVE PopulateLoop(_, _, _, _, _, _, _)
PopulateLoop(i, chosen_len, arg_names, arg_defaults, args, exec_ctx, st) ==
    IF i >= chosen_len THEN [st |-> st, exc |-> ""]
    ELSE IF i >= Len(arg_names) THEN [st |-> st, exc |-> "IndexError"]
    ELSE IF Len(args) < i \/ Len(args) = 0
    THEN PopulateLoop(i + 1, chosen_len, arg_names, arg_defaults, args, exec_ctx,
            [st EXCEPT !.tables = SymbolTable_set_plain(@, st.contexts[exec_ctx].symbol_table,
                arg_names[i + 1],
                set_context(NumberStr(DefaultText(arg_defaults.toks[i + 1])), exec_ctx))])
    ELSE IF i >= Len(args) THEN [st |-> st, exc |-> "IndexError"]
    ELSE PopulateLoop(i + 1, chosen_len, arg_names, arg_defaults, args, exec_ctx,
            [st EXCEPT !.tables = SymbolTable_set_plain(@, st.contexts[exec_ctx].symbol_table,
                arg_names[i + 1], set_context(args[i + 1], exec_ctx))])

populate_args(arg_names, arg_defaults, args, exec_ctx, st) ==
    LET has_defaults == ~arg_defaults.is_none /\ Len(arg_defaults.toks) # 0
        chosen_len == IF has_defaults THEN Len(arg_defaults.toks) ELSE Len(args)
    IN PopulateLoop(0, chosen_len, arg_names, arg_defaults, args, exec_ctx, st)

check_and_populate_args(arg_names, arg_defaults, args, exec_ctx, st) ==
    LET c == check_args(arg_names, arg_defaults, args)
        res == register(RTResult, c.res)
    IN IF c.exc # "" THEN R(res, st, c.exc)
       ELSE IF should_return(res) THEN R(res, st, "")
       ELSE With(populate_args(arg_names, arg_defaults, args, exec_ctx, st),
                 LAMBDA p : R(success(res, None), p.st, p.exc))

-----------------------------------------------------------------------------
(* Built-in functions *)

\* the execute_<name> methods BuiltInFunction defines, with their arg_names;
\* print_return, append, remove and concat have no method
BuiltInArgNames(name) ==
    CASE name \in {"print", "is_number", "is_string", "is_array", "is_function", "typeof"} ->
            <<"value">>
      [] name \in {"input", "input_int", "clear", "time"} -> <<>>
      [] name = "len" -> <<"array">>
      [] name \in {"base64_encode", "base64_decode", "unicode_to_number"} -> <<"string">>
      [] name = "number_to_unicode" -> <<"number">>
      [] name = "format_number" -> <<"num">>
      [] OTHER -> <<"fn">>

HasExecuteMethod(name) == name \notin {"print_return", "append", "remove", "concat"}

\* the bodies of the built-ins that touch neither console, clock nor files
BuiltInBody(name, exec_ctx, st) ==
    LET table == st.contexts[exec_ctx].symbol_table
        arg(n) == SymbolTable_get(st.tables, table, n)
    IN CASE name = "clear" -> R(success(RTResult, String_no_return), st, "")
         [] name = "is_number" ->
                R(success(RTResult, IF arg("value").kind = "Number" THEN Number_true ELSE Number_false), st, "")
         [] name = "is_string" ->
                R(success(RTResult, IF arg("value").kind = "String" THEN Number_true ELSE Number_false), st, "")
         [] name = "is_array" ->
                R(success(RTResult, IF arg("value").kind = "Array" THEN Number_true ELSE Number_false), st, "")
         [] name = "is_function" ->
                R(success(RTResult, IF arg("value").kind \in {"Function", "BuiltIn"}
                                    THEN Number_true ELSE Number_false), st, "")
         [] name = "len" ->
                IF arg("array").kind = "Array"
                THEN R(success(RTResult, Number(Len(st.lists[arg("array").ref]))), st, "")
                ELSE IF arg("array").kind = "String"
                THEN R(success(RTResult, Number(Len(arg("array").str))), st, "")
                ELSE R(failure(RTResult, RTError("Argument must be an array or string")), st, "")
         [] OTHER -> R(RTResult, st, "Unmodelled")

BuiltInFunction_execute(self, args, st) ==
    With(generate_new_context(self, st), LAMBDA g :
    IF g.exc # "" THEN R(RTResult, st, g.exc)
    ELSE IF ~HasExecuteMethod(self.name) THEN R(RTResult, g.st, "AttributeError")
    ELSE Then(RTResult,
              check_and_populate_args(BuiltInArgNames(self.name), NoDefaults, args,
                                      g.context, g.st),
              LAMBDA res, c :
         Then(res, BuiltInBody(self.name, g.context, c.st),
              LAMBDA res2, m : R(success(res2, m.res.value), m.st, ""))))

-----------------------------------------------------------------------------
(* The visitors of Interpreter *)

MaxLoop == 6

RECURSIVE Visit(_, _, _)

visit_NumberNode(node, context, st) ==
    R(success(RTResult, set_context(node.tok.value, context)), st, "")

visit_StringNode(node, context, st) ==
    R(success(RTResult, set_context(node.tok.value, context)), st, "")

\* the loop "for n in nodes: values.append(res.register(self.visit(n, context)));
\* if res.should_return(): return res" of visit_ArrayNode and visit_CallNode,
\* from node k on; returned tells that the loop left through return res
RECURSIVE VisitEach(_, _, _, _, _, _)
VisitEach(nodes, k, context, res, values, st) ==
    IF k > Len(nodes)
    THEN [res |-> res, st |-> st, exc |-> "", values |-> values, returned |-> FALSE]
    ELSE With(Visit(nodes[k], context, st), LAMBDA r :
         IF r.exc # ""
         THEN [res |-> res, st |-> r.st, exc |-> r.exc, values |-> values, returned |-> TRUE]
         ELSE IF should_return(register(res, r.res))
         THEN [res |-> register(res, r.res), st |-> r.st, exc |-> "", values |-> values,
               returned |-> TRUE]
         ELSE VisitEach(nodes, k + 1, context, register(res, r.res),
                        Append(values, r.res.value), r.st))

visit_ArrayNode(node, context, st) ==
    With(VisitEach(node.element_nodes, 1, context, RTResult, <<>>, st), LAMBDA e :
    IF e.returned THEN R(e.res, e.st, e.exc)
    ELSE R(success(e.res, set_context(Array(Len(e.st.lists) + 1), context)),
           [e.st EXCEPT !.lists = Append(@, e.values)], ""))

\* value = res.register(self.visit(node.value_node, context)), or Number.null
\* when the declaration has no '='
AssignedValue(node, context, st) ==
    IF node.value_node.type # "Number.null"
    THEN Visit(node.value_node, context, st)
    ELSE R([RTResult EXCEPT !.value = Number_null], st, "")

\* a visit_VarAssignNode that binds the name before it looks at the result
visit_VarAssignNode_eager(node, context, st) ==
    With(AssignedValue(node, context, st), LAMBDA a :
    R(register(RTResult, a.res),
      [a.st EXCEPT !.tables = SymbolTable_set(@, GLOBAL, node.var_name, a.res.value,
                                              TRUE, FALSE, FALSE, None)], a.exc))

visit_VarAssignNode(node, context, st) ==
    Then(RTResult, AssignedValue(node, context, st), LAMBDA res, a :
    R(success(res, a.res.value),
      [a.st EXCEPT !.tables = SymbolTable_set(@, GLOBAL, node.var_name, a.res.value,
                                              TRUE, FALSE, FALSE, None)], ""))

visit_ScopedAssignNode(node, context, st) ==
    Then(RTResult, AssignedValue(node, context, st), LAMBDA res, a :
    R(success(res, a.res.value),
      [a.st EXCEPT !.tables = SymbolTable_set(@,
            IF a.st.contexts[context].parent = 0 THEN LOCKED
            ELSE a.st.contexts[context].symbol_table,
            node.var_name, a.res.value, TRUE, TRUE, FALSE, None)], ""))

visit_StrictAssignNode(node, context, st) ==
    Then(RTResult, AssignedValue(node, context, st), LAMBDA res, a :
    R(success(res, a.res.value),
      [a.st EXCEPT !.tables = SymbolTable_set(@, GLOBAL, node.var_name, a.res.value,
                                              TRUE, FALSE, TRUE, TypeName(node.var_type))], ""))

visit_AccessNode(node, context, st) ==
    LET table == st.contexts[context].symbol_table
        should_scope == getScope(st.tables, table, node.var_name)
        value == IF st.contexts[context].parent = 0
                 THEN SymbolTable_get(st.tables, LOCKED, node.var_name)
                 ELSE SymbolTable_get(st.tables, table, node.var_name)
        is_False == should_scope.kind = "PyBool" /\ should_scope.num = 0
        value2 == IF Truthy(value) THEN value
                  ELSE SymbolTable_get(st.tables, GLOBAL, node.var_name)
    IN IF ~Truthy(value) /\ ~is_False
       THEN R(failure(RTResult, RTError("is not defined or not in this scope.")), st, "")
       ELSE IF value2.kind = "None" THEN R(RTResult, st, "AttributeError")
       ELSE R(success(RTResult, set_context(copy(value2), context)), st, "")

\* if error: return res.failure(error) else: return res.success(result)
Outcome(res, st, o) ==
    IF o.exc # "" THEN R(res, [st EXCEPT !.lists = o.lists], o.exc)
    ELSE IF IsError(o.error) THEN R(failure(res, o.error), [st EXCEPT !.lists = o.lists], "")
    ELSE R(success(res, o.result), [st EXCEPT !.lists = o.lists], "")

visit_BinaryOpNode(node, context, st) ==
    Then(RTResult, Visit(node.left_node, context, st), LAMBDA res1, l :
    Then(res1, Visit(node.right_node, context, l.st), LAMBDA res2, r :
    Outcome(res2, r.st, BinaryDispatch(node.op, r.st.lists, l.res.value, r.res.value))))

visit_UnaryOpNode(node, context, st) ==
    Then(RTResult, Visit(node.node, context, st), LAMBDA res1, n :
    Outcome(res1, n.st, UnaryDispatch(node.op, n.st.lists, n.res.value)))

\* a loop result that keeps the flags of the last iteration: no reset()
ForResult_keep(node, context, res, elements, st) ==
    IF node.should_return_null THEN R([res EXCEPT !.value = String_no_return], st, "")
    ELSE R([res EXCEPT !.value = set_context(Array(Len(st.lists) + 1), context)],
           [st EXCEPT !.lists = Append(@, elements)], "")

\* return res.success(String.no_return if node.should_return_null else Array(elements))
ForResult(node, context, res, elements, st) ==
    IF node.should_return_null THEN R(success(res, String_no_return), st, "")
    ELSE R(success(res, set_context(Array(Len(st.lists) + 1), context)),
           [st EXCEPT !.lists = Append(@, elements)], "")

\* the while loop of visit_ForNode; i, end_value and step_value are Numbers
\* holding the payloads of the code
RECURSIVE ForLoop(_, _, _, _, _, _, _, _, _)
\* a loop that reads its counter back from the loop variable after the body
ForLoop_rebound(node, context, res, i, end_value, step_value, elements, st, fuel) ==
    IF ~(IF step_value.num >= 0 THEN Less(i, end_value) ELSE Less(end_value, i))
    THEN ForResult(node, context, res, elements, st)
    ELSE IF fuel = 0 THEN R(res, st, "Unmodelled")
    ELSE With(Visit(node.body_node, context,
                    [st EXCEPT !.tables = SymbolTable_set_plain(@,
                        st.contexts[context].symbol_table, node.var_name, MkNumber(i.py, i))]),
              LAMBDA b :
         With(SymbolTable_get(b.st.tables, b.st.contexts[context].symbol_table, node.var_name),
              LAMBDA v :
         With(MkNumber(Join(v, step_value),
                       Rat(v.num * step_value.den + step_value.num * v.den,
                           v.den * step_value.den)), LAMBDA next_i :
         With(register(res, b.res), LAMBDA res1 :
         IF b.exc # "" THEN R(res, b.st, b.exc)
         ELSE IF should_return(res1) /\ ~res1.loop_should_continue /\ ~res1.loop_should_break
         THEN R(res1, b.st, "")
         ELSE IF res1.loop_should_continue
         THEN ForLoop(node, context, res1, next_i, end_value, step_value, elements, b.st,
                      fuel - 1)
         ELSE IF res1.loop_should_break THEN ForResult(node, context, res1, elements, b.st)
         ELSE ForLoop(node, context, res1, next_i, end_value, step_value,
                      Append(elements, b.res.value), b.st, fuel - 1)))))

ForLoop(node, context, res, i, end_value, step_value, elements, st, fuel) ==
    IF ~(IF step_value.num >= 0 THEN Less(i, end_value) ELSE Less(end_value, i))
    THEN ForResult(node, context, res, elements, st)
    ELSE IF fuel = 0 THEN R(res, st, "Unmodelled")
    ELSE With(MkNumber(Join(i, step_value),
                       Rat(i.num * step_value.den + step_value.num * i.den,
                           i.den * step_value.den)), LAMBDA next_i :
         With(Visit(node.body_node, context,
                    [st EXCEPT !.tables = SymbolTable_set_plain(@,
                        st.contexts[context].symbol_table, node.var_name, MkNumber(i.py, i))]),
              LAMBDA b :
         With(register(res, b.res), LAMBDA res1 :
         IF b.exc # "" THEN R(res, b.st, b.exc)
         ELSE IF should_return(res1) /\ ~res1.loop_should_continue /\ ~res1.loop_should_break
         THEN R(res1, b.st, "")
         ELSE IF res1.loop_should_continue
         THEN ForLoop(node, context, res1, next_i, end_value, step_value, elements, b.st,
                      fuel - 1)
         ELSE IF res1.loop_should_break THEN ForResult(node, context, res1, elements, b.st)
         ELSE ForLoop(node, context, res1, next_i, end_value, step_value,
                      Append(elements, b.res.value), b.st, fuel - 1))))

\* a visit_ForNode whose loop without a step advances by 2
StepValue_two(node, context, st) ==
    IF node.step_value_node.type # "None" THEN Visit(node.step_value_node, context, st)
    ELSE R([RTResult EXCEPT !.value = Number(2)], st, "")

\* step_value = Number(1) when the loop has no step
StepValue(node, context, st) ==
    IF node.step_value_node.type # "None" THEN Visit(node.step_value_node, context, st)
    ELSE R([RTResult EXCEPT !.value = Number(1)], st, "")

\* start, end and step that are not Numbers with an int or float payload are
\* outside the model
visit_ForNode(node, context, st) ==
    Then(RTResult, Visit(node.start_value_node, context, st), LAMBDA res1, s :
    Then(res1, Visit(node.end_value_node, context, s.st), LAMBDA res2, e :
    Then(res2, StepValue(node, context, e.st), LAMBDA res3, t :
    IF ~(IsNum(s.res.value) /\ Finite(s.res.value)) \/ ~(IsNum(e.res.value) /\ Finite(e.res.value))
       \/ ~(IsNum(t.res.value) /\ Finite(t.res.value))
    THEN R(res3, t.st, "Unmodelled")
    ELSE ForLoop(node, context, res3, s.res.value, e.res.value, t.res.value, <<>>, t.st,
                 MaxLoop))))

\* the loop over node.cases of visit_IfNode, from case k on, and the else_case
RECURSIVE IfCases(_, _, _, _, _)
IfCases(node, k, context, res, st) ==
    IF k > Len(node.cases)
    THEN IF node.else_case.type # "None"
         THEN Then(res, Visit(node.else_case.expr, context, st), LAMBDA res1, e :
              R(success(res1, IF node.else_case.should_return_null THEN String_no_return
                              ELSE e.res.value), e.st, ""))
         ELSE R(success(res, String_no_return), st, "")
    ELSE Then(res, Visit(node.cases[k].condition, context, st), LAMBDA res1, c :
         IF is_true(c.res.value)
         THEN Then(res1, Visit(node.cases[k].expr, context, c.st), LAMBDA res2, e :
              R(success(res2, IF node.cases[k].should_return_null THEN String_no_return
                              ELSE e.res.value), e.st, ""))
         ELSE IfCases(node, k + 1, context, res1, c.st))

visit_IfNode(node, context, st) == IfCases(node, 1, context, RTResult, st)

\* the "while True" loop of visit_WhileNode; its closing res.success(...) is
\* the one of visit_ForNode
RECURSIVE WhileLoop(_, _, _, _, _, _)
WhileLoop(node, context, res, elements, st, fuel) ==
    Then(res, Visit(node.condition_node, context, st), LAMBDA res1, c :
    IF ~is_true(c.res.value) THEN ForResult(node, context, res1, elements, c.st)
    ELSE IF fuel = 0 THEN R(res1, c.st, "Unmodelled")
    ELSE With(Visit(node.body_node, context, c.st), LAMBDA b :
         With(register(res1, b.res), LAMBDA res2 :
         IF b.exc # "" THEN R(res1, b.st, b.exc)
         ELSE IF should_return(res2) /\ ~res2.loop_should_continue /\ ~res2.loop_should_break
         THEN R(res2, b.st, "")
         ELSE IF res2.loop_should_continue
         THEN WhileLoop(node, context, res2, elements, b.st, fuel - 1)
         ELSE IF res2.loop_should_break THEN ForResult(node, context, res2, elements, b.st)
         ELSE WhileLoop(node, context, res2, Append(elements, b.res.value), b.st,
                        fuel - 1))))

visit_WhileNode(node, context, st) == WhileLoop(node, context, RTResult, <<>>, st, MaxLoop)

visit_FuncDefNode(node, context, st) ==
    R(success(RTResult, set_context(Function(node.var_name, node), context)),
      IF node.var_name # ""
      THEN [st EXCEPT !.tables = SymbolTable_set_plain(@, st.contexts[context].symbol_table,
                node.var_name, set_context(Function(node.var_name, node), context))]
      ELSE st, "")

\* ret_value = (value if self.should_auto_return else None) or
\* res.func_return_value or Number.null
ret_value(self, value, res) ==
    IF self.fn.should_auto_return /\ Truthy(value) THEN value
    ELSE IF Truthy(res.func_return_value) THEN res.func_return_value
    ELSE Number_null

\* an execute that consumes break and continue at the call boundary, as it
\* does a return
Function_execute_consume(self, args, st) ==
    With(generate_new_context(self, st), LAMBDA g :
    IF g.exc # "" THEN R(RTResult, st, g.exc)
    ELSE Then(RTResult,
              check_and_populate_args(self.fn.arg_names, Defaults(self.fn.arg_defaults),
                                      args, g.context, g.st),
              LAMBDA res, c :
         With(Visit(self.fn.body_node, g.context, c.st), LAMBDA b :
         With(register(res, b.res), LAMBDA res2 :
         IF b.exc # "" THEN R(res, b.st, b.exc)
         ELSE IF IsError(res2.error) THEN R(res2, b.st, "")
         ELSE R(success(res2, ret_value(self, b.res.value, res2)), b.st, "")))))

Function_execute(self, args, st) ==
    With(generate_new_context(self, st), LAMBDA g :
    IF g.exc # "" THEN R(RTResult, st, g.exc)
    ELSE Then(RTResult,
              check_and_populate_args(self.fn.arg_names, Defaults(self.fn.arg_defaults),
                                      args, g.context, g.st),
              LAMBDA res, c :
         With(Visit(self.fn.body_node, g.context, c.st), LAMBDA b :
         With(register(res, b.res), LAMBDA res2 :
         IF b.exc # "" THEN R(res, b.st, b.exc)
         ELSE IF should_return(res2) /\ res2.func_return_value.kind = "None"
         THEN R(res2, b.st, "")
         ELSE R(success(res2, ret_value(self, b.res.value, res2)), b.st, "")))))

\* value_to_call.execute(args): Function.execute, BuiltInFunction.execute, or
\* Value.execute, which fails with an illegal operation
execute(self, args, st) ==
    CASE self.kind = "Function" -> Function_execute(self, args, st)
      [] self.kind = "BuiltIn" -> BuiltInFunction_execute(self, args, st)
      [] OTHER -> R(failure(RTResult, illegal_operation(self, self)), st, "")

\* copy() of a result that is None raises AttributeError
visit_CallNode(node, context, st) ==
    Then(RTResult, Visit(node.node_to_call, context, st), LAMBDA res1, c :
    IF c.res.value.kind = "None" THEN R(res1, c.st, "AttributeError")
    ELSE With(VisitEach(node.arg_nodes, 1, context, res1, <<>>, c.st), LAMBDA a :
         IF a.returned THEN R(a.res, a.st, a.exc)
         ELSE Then(a.res, execute(copy(c.res.value), a.values, a.st), LAMBDA res2, x :
              IF x.res.value.kind = "None" THEN R(res2, x.st, "AttributeError")
              ELSE R(success(res2, set_context(copy(x.res.value), context)), x.st, ""))))

visit_ReturnNode(node, context, st) ==
    IF node.node_to_return.type # "None"
    THEN Then(RTResult, Visit(node.node_to_return, context, st), LAMBDA res1, r :
              R(success_return(res1, r.res.value), r.st, ""))
    ELSE R(success_return(RTResult, String_no_return), st, "")

visit_ContinueNode(node, context, st) == R(success_continue(RTResult), st, "")

visit_BreakNode(node, context, st) == R(success_break(RTResult), st, "")

\* Interpreter.visit: the visit_<class> method of the node
Visit(node, context, st) ==
    CASE node.type = "NumberNode" -> visit_NumberNode(node, context, st)
      [] node.type = "StringNode" -> visit_StringNode(node, context, st)
      [] node.type = "ArrayNode" -> visit_ArrayNode(node, context, st)
      [] node.type = "VarAssignNode" -> visit_VarAssignNode(node, context, st)
      [] node.type = "ScopedAssignNode" -> visit_ScopedAssignNode(node, context, st)
      [] node.type = "StrictAssignNode" -> visit_StrictAssignNode(node, context, st)
      [] node.type = "AccessNode" -> visit_AccessNode(node, context, st)
      [] node.type = "BinaryOpNode" -> visit_BinaryOpNode(node, context, st)
      [] node.type = "UnaryOpNode" -> visit_UnaryOpNode(node, context, st)
      [] node.type = "IfNode" -> visit_IfNode(node, context, st)
      [] node.type = "ForNode" -> visit_ForNode(node, context, st)
      [] node.type = "WhileNode" -> visit_WhileNode(node, context, st)
      [] node.type = "FuncDefNode" -> visit_FuncDefNode(node, context, st)
      [] node.type = "CallNode" -> visit_CallNode(node, context, st)
      [] node.type = "ReturnNode" -> visit_ReturnNode(node, context, st)
      [] node.type = "ContinueNode" -> visit_ContinueNode(node, context, st)
      [] node.type = "BreakNode" -> visit_BreakNode(node, context, st)
      [] OTHER -> R(RTResult, st, "Exception")

-----------------------------------------------------------------------------
(* The parser's checks on strict declarations, and run.  Programs are given  *)
(* as the trees the parser builds; of the parser itself the model keeps the  *)
(* checks Parser.expression makes against global_symbol_table while it       *)
(* parses a strict declaration.                                              *)

\* which of the words INT, FLOAT, STRING occur in str(expr): NumberNode and
\* StringNode print their token, BinaryOpNode and UnaryOpNode print their
\* operands, every other node prints as Python's default object text.  The
\* string literals of the programs below contain none of the words.
RECURSIVE ReprWords(_)
ReprWords(node) ==
    CASE node.type \in {"NumberNode", "StringNode"} -> {node.tok.type}
      [] node.type = "BinaryOpNode" -> ReprWords(node.left_node) \cup ReprWords(node.right_node)
      [] node.type = "UnaryOpNode" -> ReprWords(node.node)
      [] OTHER -> {}

TypeWord(type_) ==
    CASE type_ = "string" -> "STRING"
      [] type_ = "int" -> "INT"
      [] type_ = "float" -> "FLOAT"

\* the strict branch of Parser.expression for one declaration
expression_strict(node, tabs) ==
    IF Truthy(isStrict(tabs, GLOBAL, node.var_name))
       /\ TypeName(node.var_type) # getType(tabs, GLOBAL, node.var_name)
    THEN InvalidSyntaxError("Cannot assign 'strict' variable to different type!")
    ELSE IF TypeWord(node.var_type) \notin ReprWords(node.value_node)
    THEN InvalidSyntaxError("Expected Type")
    ELSE NoError

\* the first error the parser meets on the declarations of a tree, in source
\* order; the table it consults is the one of the moment parsing starts
RECURSIVE ParseError(_, _)
FirstError(nodes, tabs) ==
    LET bad == {k \in 1..Len(nodes) : IsError(ParseError(nodes[k], tabs))}
    IN IF bad = {} THEN NoError
       ELSE ParseError(nodes[CHOOSE k \in bad : \A j \in bad : k <= j], tabs)

ParseError(node, tabs) ==
    CASE node.type = "ArrayNode" -> FirstError(node.element_nodes, tabs)
      [] node.type = "StrictAssignNode" ->
            IF IsError(expression_strict(node, tabs)) THEN expression_strict(node, tabs)
            ELSE ParseError(node.value_node, tabs)
      [] node.type \in {"VarAssignNode", "ScopedAssignNode"} -> ParseError(node.value_node, tabs)
      [] node.type = "BinaryOpNode" -> FirstError(<<node.left_node, node.right_node>>, tabs)
      [] node.type = "UnaryOpNode" -> ParseError(node.node, tabs)
      [] node.type = "ForNode" ->
            FirstError(<<node.start_value_node, node.end_value_node, node.step_value_node,
                         node.body_node>>, tabs)
      [] node.type = "IfNode" ->
            FirstError([k \in 1..(2 * Len(node.cases)) |->
                            IF k % 2 = 1 THEN node.cases[(k + 1) \div 2].condition
                            ELSE node.cases[k \div 2].expr]
                       \o (IF node.else_case.type # "None" THEN <<node.else_case.expr>>
                           ELSE <<>>), tabs)
      [] node.type = "WhileNode" -> FirstError(<<node.condition_node, node.body_node>>, tabs)
      [] node.type = "FuncDefNode" -> ParseError(node.body_node, tabs)
      [] node.type = "CallNode" -> FirstError(<<node.node_to_call>> \o node.arg_nodes, tabs)
      [] node.type = "ReturnNode" -> ParseError(node.node_to_return, tabs)
      [] OTHER -> NoError

\* run(fn, text) for a text that lexes and parses to the tree ast: the pair
\* (value, error) it returns, the heaps it leaves, the exception it raises
run(ast, st) ==
    IF IsError(ParseError(ast, st.tables))
    THEN [value |-> None, error |-> ParseError(ast, st.tables), st |-> st, exc |-> ""]
    ELSE With(Visit(ast, Len(st.contexts) + 1,
                    [st EXCEPT !.contexts = Append(@, Context("BASE_LEVEL_SCRIPT", 0, GLOBAL))]),
              LAMBDA result :
         IF result.exc # ""
         THEN [value |-> None, error |-> NoError, st |-> result.st, exc |-> result.exc]
         ELSE [value |-> result.res.value, error |-> result.res.error, st |-> result.st,
               exc |-> ""])

-----------------------------------------------------------------------------
(* The lexer.  A text is a sequence of characters; NoChar is the None that   *)
(* current_char holds before the first and after the last character.        *)

NoChar == "None"
DIGITS == {"0", "1", "2", "3", "4", "5", "6", "7", "8", "9"}
LETTERS ==
    {"a", "b", "c", "d", "e", "f", "g", "h", "i", "j", "k", "l", "m", "n", "o", "p", "q",
     "r", "s", "t", "u", "v", "w", "x", "y", "z", "A", "B", "C", "D", "E", "F", "G", "H",
     "I", "J", "K", "L", "M", "N", "O", "P", "Q", "R", "S", "T", "U", "V", "W", "X", "Y",
     "Z"}
KEYWORDS ==
    {"var", "let", "scoped", "strict", "and", "or", "not", "if", "then", "elif", "else",
     "for", "until", "step", "while", "function", "end", "return", "continue", "break"}

IllegalCharError(details) == [error_name |-> "Illegal Character", details |-> details]
ExpectedCharError(details) == [error_name |-> "Expected Character", details |-> details]

\* Lexer.advance; idx is pos.idx
advance(lx) ==
    [lx EXCEPT !.previous_char = lx.current_char,
               !.idx = lx.idx + 1,
               !.current_char = IF lx.idx + 1 < Len(lx.text) THEN lx.text[lx.idx + 2]
                                ELSE NoChar]

Lexer(text) ==
    advance([text |-> text, idx |-> -1, current_char |-> NoChar, previous_char |-> NoChar])

\* the tokens that carry no value
Tok(type_) == Token(type_, None, "", <<>>)

\* what a make_<token> method hands back: the lexer, the token, the error, the
\* heaps (an interpolation evaluates code), the exception it raised
LexRes(lx, tok, error, st, exc) ==
    [lx |-> lx, tok |-> tok, error |-> error, st |-> st, exc |-> exc]

\* the characters make_number and make_identifier consume
RECURSIVE Scan(_, _, _)
Scan(lx, chars, acc) ==
    IF lx.current_char # NoChar /\ lx.current_char \in chars
    THEN Scan(advance(lx), chars, Append(acc, lx.current_char))
    ELSE [lx |-> lx, str |-> acc]

\* int(num_str)
RECURSIVE IntOf(_)
IntOf(num_str) ==
    IF num_str = <<>> THEN 0
    ELSE 10 * IntOf(SubSeq(num_str, 1, Len(num_str) - 1))
         + (CHOOSE d \in 0..9 : DigitText[d + 1] = num_str[Len(num_str)])

\* a number with a '.' is outside the model
make_number(lx, st) ==
    With(Scan(lx, DIGITS, <<>>), LAMBDA s :
    IF s.lx.current_char = "." THEN LexRes(s.lx, Tok("FLOAT"), NoError, st, "Unmodelled")
    ELSE LexRes(s.lx, TokInt(IntOf(s.str)), NoError, st, ""))

\* "".join(chars)
RECURSIVE StrOf(_)
StrOf(chars) == IF chars = <<>> THEN "" ELSE Head(chars) \o StrOf(Tail(chars))

make_identifier(lx, st) ==
    With(Scan(lx, LETTERS \cup DIGITS \cup {"_"}, <<>>), LAMBDA s :
    LexRes(s.lx, Token(IF StrOf(s.str) \in KEYWORDS THEN "KEYWORD" ELSE "IDENTIFIER", None,
                       StrOf(s.str), <<>>), NoError, st, ""))

make_not_equals(lx, st) ==
    IF advance(lx).current_char = "="
    THEN LexRes(advance(advance(lx)), Tok("NE"), NoError, st, "")
    ELSE LexRes(advance(advance(lx)), Tok("NE"), ExpectedCharError("'=' (after '!')"), st, "")

\* make_equals, make_less_than, make_greater_than: one character, or two when
\* the second is among those of follow
TwoChar(lx, st, one, follow) ==
    IF advance(lx).current_char \in DOMAIN follow
    THEN LexRes(advance(advance(lx)), Tok(follow[advance(lx).current_char]), NoError, st, "")
    ELSE LexRes(advance(lx), Tok(one), NoError, st, "")

\* skip_comment: "while self.current_char != '\n': self.advance()".  At the
\* end of the text advance leaves current_char None, and the loop never ends.
RECURSIVE SkipLine(_)
SkipLine(lx) ==
    IF lx.current_char = "\n" THEN [lx |-> advance(lx), exc |-> ""]
    ELSE IF lx.current_char = NoChar THEN [lx |-> lx, exc |-> "NonTermination"]
    ELSE SkipLine(advance(lx))

skip_comment(lx) == SkipLine(advance(lx))

\* the characters make_tokens turns into a token of their own
SingleChar ==
    [c \in {"+", "-", "*", "/", "^", "%", "(", ")", "[", "]", "{", "}", ",", ":", "?"} |->
        CASE c = "+" -> "PLUS" [] c = "-" -> "MINUS" [] c = "*" -> "MUL" [] c = "/" -> "DIV"
          [] c = "^" -> "POW" [] c = "%" -> "MOD" [] c = "(" -> "LPAREN" [] c = ")" -> "RPAREN"
          [] c = "[" -> "LSQUARE" [] c = "]" -> "RSQUARE" [] c = "{" -> "LCURLY"
          [] c = "}" -> "RCURLY" [] c = "," -> "COMMA" [] c = ":" -> "COLON"
          [] OTHER -> "QUESTION"]

\* str(x) of a value, of None, and of the elements of an Array; the text of a
\* float and of a function is outside the model
RECURSIVE PyStr(_, _)
PyStrEach(elements, ls) == [k \in 1..Len(elements) |-> PyStr(elements[k], ls)]
RECURSIVE CommaJoin(_)
CommaJoin(texts) ==
    IF texts = <<>> THEN <<>>
    ELSE IF Len(texts) = 1 THEN texts[1]
    ELSE texts[1] \o <<",", " ">> \o CommaJoin(Tail(texts))
PyStr(x, ls) ==
    CASE x.kind = "None" -> <<"N", "o", "n", "e">>
      [] x.kind = "Number" /\ x.py = "int" ->
            IF x.num < 0 THEN <<"-">> \o NatText(-x.num) ELSE NatText(x.num)
      [] x.kind = "Number" /\ x.py = "str" -> x.str
      [] x.kind = "String" -> x.str
      [] x.kind = "Bool" ->
            IF x.num = 1 THEN <<"T", "r", "u", "e">> ELSE <<"F", "a", "l", "s", "e">>
      [] x.kind = "Array" -> CommaJoin(PyStrEach(ls[x.ref], ls))
      [] OTHER -> <<"Unmodelled">>

\* str((None, error)): "(None, <peanut.IllegalCharError object at 0x...>)",
\* with the error's name for the class and the address of the object
TupleStr(error) ==
    <<"(", "N", "o", "n", "e", ",", " ", "<", error.error_name, ">", ")">>

-----------------------------------------------------------------------------
(* The parser, for the statements made of var / let / scoped declarations,   *)
(* return, continue, break, unary and binary operators, numbers, strings and *)
(* identifiers.  Parentheses, lists, calls, if, for, while, function and     *)
(* strict are outside the model.  The details of a syntax error are          *)
(* shortened to the first words of the message.                              *)

\* what a parsing method hands back: the node, the error, the index of the
\* current token (tok_idx + 1)
PR(node, error, idx, exc) == [node |-> node, error |-> error, idx |-> idx, exc |-> exc]

matches(tok, type_, value) == tok.type = type_ /\ tok.name = value

ThenP(r, K(_)) == IF IsError(r.error) \/ r.exc # "" THEN r ELSE K(r)

RECURSIVE expression(_, _)
RECURSIVE statements(_, _)

\* self.current_tok when tok_idx is idx: update_current_tok leaves the last
\* token in place once tok_idx is past the end
Cur(tokens, idx) == tokens[IF idx > Len(tokens) THEN Len(tokens) ELSE idx]

\* "if self.current_tok.type == TT_EQ": the token after '=' is taken as the
\* default, whatever it is
DefaultClause(tokens, idx, arg_defaults) ==
    IF Cur(tokens, idx).type = "EQ"
    THEN [arg_defaults |-> Append(arg_defaults, Cur(tokens, idx + 1)), idx |-> idx + 2]
    ELSE [arg_defaults |-> arg_defaults, idx |-> idx]

\* "while self.current_tok.type == TT_COMMA"
RECURSIVE MoreParams(_, _, _)
MoreParams(tokens, idx, arg_name_toks) ==
    IF Cur(tokens, idx).type # "COMMA"
    THEN [arg_name_toks |-> arg_name_toks, idx |-> idx, error |-> NoError]
    ELSE IF Cur(tokens, idx + 1).type # "IDENTIFIER"
    THEN [arg_name_toks |-> arg_name_toks, idx |-> idx + 1,
          error |-> InvalidSyntaxError("Expected identifier")]
    ELSE MoreParams(tokens, idx + 2, Append(arg_name_toks, Cur(tokens, idx + 1).name))

\* the parameter list of Parser.func_def, from the token after '(' up to ')'
ParamList(tokens, idx) ==
    IF Cur(tokens, idx).type = "IDENTIFIER"
    THEN With(DefaultClause(tokens, idx + 1, <<>>), LAMBDA first :
         With(MoreParams(tokens, first.idx, <<Cur(tokens, idx).name>>), LAMBDA m :
         IF IsError(m.error)
         THEN [arg_name_toks |-> m.arg_name_toks, arg_defaults |-> first.arg_defaults,
               idx |-> m.idx, error |-> m.error]
         ELSE With(DefaultClause(tokens, m.idx, first.arg_defaults), LAMBDA d :
              [arg_name_toks |-> m.arg_name_toks, arg_defaults |-> d.arg_defaults, idx |-> d.idx,
               error |-> IF Cur(tokens, d.idx).type # "RPAREN"
                         THEN InvalidSyntaxError("Expected ',' '=' or ')'") ELSE NoError])))
    ELSE [arg_name_toks |-> <<>>, arg_defaults |-> <<>>, idx |-> idx,
          error |-> IF Cur(tokens, idx).type # "RPAREN"
                    THEN InvalidSyntaxError("Expected identifier or ')'") ELSE NoError]

\* the body of Parser.func_def, from the token after ')'
FuncBody(tokens, idx, var_name, p) ==
    IF tokens[idx].type = "ARROW"
    THEN ThenP(expression(tokens, idx + 1), LAMBDA e :
         PR(FuncDefNode(var_name, p.arg_name_toks, p.arg_defaults, e.node, TRUE), NoError,
            e.idx, ""))
    ELSE IF tokens[idx].type # "NEWLINE"
    THEN PR(NoNode, InvalidSyntaxError("Expected '=>' or NEWLINE"), idx, "")
    ELSE ThenP(statements(tokens, idx + 1), LAMBDA body :
         IF ~matches(tokens[body.idx], "KEYWORD", "end")
         THEN PR(NoNode, InvalidSyntaxError("Expected 'end'"), body.idx, "")
         ELSE PR(FuncDefNode(var_name, p.arg_name_toks, p.arg_defaults, body.node, FALSE),
                 NoError, body.idx + 1, ""))

\* Parser.func_def, with idx at the keyword 'function'
func_def(tokens, idx) ==
    With(IF tokens[idx + 1].type = "IDENTIFIER" THEN idx + 2 ELSE idx + 1, LAMBDA lparen :
    IF tokens[lparen].type # "LPAREN"
    THEN PR(NoNode, InvalidSyntaxError(IF lparen = idx + 2 THEN "Expected '('"
                                       ELSE "Expected identifier or '('"), lparen, "")
    ELSE With(ParamList(tokens, lparen + 1), LAMBDA p :
         IF IsError(p.error) THEN PR(NoNode, p.error, p.idx, "")
         ELSE FuncBody(tokens, p.idx + 1,
                       IF lparen = idx + 2 THEN tokens[idx + 1].name ELSE "", p)))

atom(tokens, idx) ==
    CASE tokens[idx].type \in {"INT", "FLOAT"} -> PR(NumberNode(tokens[idx]), NoError, idx + 1, "")
      [] tokens[idx].type = "STRING" -> PR(StringNode(tokens[idx]), NoError, idx + 1, "")
      [] tokens[idx].type = "IDENTIFIER" -> PR(AccessNode(tokens[idx].name), NoError, idx + 1, "")
      [] tokens[idx].type \in {"LPAREN", "LSQUARE"} -> PR(NoNode, NoError, idx, "Unmodelled")
      [] matches(tokens[idx], "KEYWORD", "function") -> func_def(tokens, idx)
      [] tokens[idx].type = "KEYWORD" /\ tokens[idx].name \in {"if", "for", "while"} ->
            PR(NoNode, NoError, idx, "Unmodelled")
      [] OTHER -> PR(NoNode, InvalidSyntaxError("Expected"), idx, "")

call(tokens, idx) ==
    ThenP(atom(tokens, idx), LAMBDA a :
    IF tokens[a.idx].type = "LPAREN" THEN PR(NoNode, NoError, a.idx, "Unmodelled") ELSE a)

\* the operators of each level of Parser.BinaryOp, from term up to expression
LevelOps ==
    << {"MUL", "DIV", "MOD"}, {"PLUS", "MINUS"}, {"EE", "NE", "LT", "GT", "LTE", "GTE"},
       {"and", "or"} >>

\* the operator a token is at a level, "" when it is none
OpAt(tok, level) ==
    IF level = 0 THEN (IF tok.type = "POW" THEN "POW" ELSE "")
    ELSE IF level = 4
    THEN (IF tok.type = "KEYWORD" /\ tok.name \in LevelOps[4] THEN tok.name ELSE "")
    ELSE (IF tok.type \in LevelOps[level] THEN tok.type ELSE "")

RECURSIVE factor(_, _)
RECURSIVE Level(_, _, _)
RECURSIVE BinaryOpLoop(_, _, _)

\* func_b of Parser.BinaryOp: power takes factor on the right of '^'
Operand(tokens, idx, level) ==
    CASE level = 0 -> factor(tokens, idx)
      [] level = 1 -> factor(tokens, idx)
      [] OTHER -> Level(tokens, idx, level - 1)

\* the while loop of Parser.BinaryOp
BinaryOpLoop(tokens, left, level) ==
    IF OpAt(tokens[left.idx], level) = "" THEN left
    ELSE ThenP(Operand(tokens, left.idx + 1, level), LAMBDA right :
         BinaryOpLoop(tokens,
                      PR(BinaryOpNode(left.node, OpAt(tokens[left.idx], level), right.node),
                         NoError, right.idx, ""), level))

\* power (level 0), term, arith_expr, comp_expr and the operator chain of
\* expression (level 4)
Level(tokens, idx, level) ==
    IF level = 3 /\ matches(tokens[idx], "KEYWORD", "not")
    THEN ThenP(Level(tokens, idx + 1, 3), LAMBDA n :
               PR(UnaryOpNode("not", n.node), NoError, n.idx, ""))
    ELSE ThenP(IF level = 0 THEN call(tokens, idx) ELSE Operand(tokens, idx, level),
               LAMBDA left : BinaryOpLoop(tokens, left, level))

factor(tokens, idx) ==
    IF tokens[idx].type \in {"PLUS", "MINUS"}
    THEN ThenP(factor(tokens, idx + 1), LAMBDA f :
               PR(UnaryOpNode(tokens[idx].type, f.node), NoError, f.idx, ""))
    ELSE Level(tokens, idx, 0)

\* the var / let and scoped branches of Parser.expression: a scoped
\* declaration without '=' is built as a VarAssignNode
Declaration(tokens, idx, scoped) ==
    IF tokens[idx + 1].type # "IDENTIFIER"
    THEN PR(NoNode, InvalidSyntaxError("Expected identifier"), idx + 1, "")
    ELSE IF tokens[idx + 2].type # "EQ"
    THEN PR(VarAssignNode(tokens[idx + 1].name, NumberNullNode), NoError, idx + 2, "")
    ELSE ThenP(expression(tokens, idx + 3), LAMBDA e :
         PR(IF scoped THEN ScopedAssignNode(tokens[idx + 1].name, e.node)
            ELSE VarAssignNode(tokens[idx + 1].name, e.node), NoError, e.idx, ""))

expression(tokens, idx) ==
    CASE matches(tokens[idx], "KEYWORD", "var") \/ matches(tokens[idx], "KEYWORD", "let") ->
            Declaration(tokens, idx, FALSE)
      [] matches(tokens[idx], "KEYWORD", "scoped") -> Declaration(tokens, idx, TRUE)
      [] matches(tokens[idx], "KEYWORD", "strict") -> PR(NoNode, NoError, idx, "Unmodelled")
      [] OTHER -> Level(tokens, idx, 4)

\* Parser.statement; a return whose expression fails to parse reverses to the
\* token after 'return'
statement(tokens, idx) ==
    CASE matches(tokens[idx], "KEYWORD", "return") ->
            With(expression(tokens, idx + 1), LAMBDA e :
            IF e.exc # "" THEN e
            ELSE IF IsError(e.error) THEN PR(ReturnNode(NoNode), NoError, idx + 1, "")
            ELSE PR(ReturnNode(e.node), NoError, e.idx, ""))
      [] matches(tokens[idx], "KEYWORD", "continue") -> PR(ContinueNode, NoError, idx + 1, "")
      [] matches(tokens[idx], "KEYWORD", "break") -> PR(BreakNode, NoError, idx + 1, "")
      [] OTHER -> expression(tokens, idx)

\* the index after the NEWLINE tokens at idx
RECURSIVE SkipNewlines(_, _)
SkipNewlines(tokens, idx) ==
    IF tokens[idx].type = "NEWLINE" THEN SkipNewlines(tokens, idx + 1) ELSE idx

\* the "while True" loop of Parser.statements: a statement that fails to parse
\* after a newline ends the list, with the parser back at its first token
RECURSIVE MoreStatements(_, _, _)
MoreStatements(tokens, idx, nodes) ==
    IF SkipNewlines(tokens, idx) = idx THEN PR(ArrayNode(nodes), NoError, idx, "")
    ELSE With(statement(tokens, SkipNewlines(tokens, idx)), LAMBDA s :
         IF s.exc # "" THEN s
         ELSE IF IsError(s.error)
         THEN PR(ArrayNode(nodes), NoError, SkipNewlines(tokens, idx), "")
         ELSE MoreStatements(tokens, s.idx, Append(nodes, s.node)))

statements(tokens, idx) ==
    ThenP(statement(tokens, SkipNewlines(tokens, idx)), LAMBDA s :
          MoreStatements(tokens, s.idx, <<s.node>>))

\* Parser.parse
parse(tokens) ==
    ThenP(statements(tokens, 1), LAMBDA res :
    IF tokens[res.idx].type # "EOF"
    THEN PR(res.node, InvalidSyntaxError("Token cannot appear after previous tokens"),
            res.idx, "")
    ELSE res)

-----------------------------------------------------------------------------
(* Strings, interpolation and make_tokens *)

RECURSIVE make_tokens(_, _)

\* run_interpolation: (None, error) when the code does not lex or parse,
\* result.value otherwise; tuple tells which
run_interpolation(code, st) ==
    With(make_tokens(code, st), LAMBDA t :
    IF t.exc # "" THEN [tuple |-> FALSE, value |-> None, error |-> NoError, st |-> t.st, exc |-> t.exc]
    ELSE IF IsError(t.error)
    THEN [tuple |-> TRUE, value |-> None, error |-> t.error, st |-> t.st, exc |-> ""]
    ELSE With(parse(t.tokens), LAMBDA ast :
         IF ast.exc # ""
         THEN [tuple |-> FALSE, value |-> None, error |-> NoError, st |-> t.st, exc |-> ast.exc]
         ELSE IF IsError(ast.error)
         THEN [tuple |-> TRUE, value |-> None, error |-> ast.error, st |-> t.st, exc |-> ""]
         ELSE With(Visit(ast.node, Len(t.st.contexts) + 1,
                         [t.st EXCEPT !.contexts =
                             Append(@, Context("BASE_LEVEL_SCRIPT", 0, GLOBAL))]),
                   LAMBDA result :
              [tuple |-> FALSE, value |-> result.res.value, error |-> NoError,
               st |-> result.st, exc |-> result.exc])))

\* what the interpolation block of make_string hands back
SR(lx, string, code, st, exc) ==
    [lx |-> lx, string |-> string, code |-> code, st |-> st, exc |-> exc]

\* "while self.current_char != '}': code = code + self.current_char": at the
\* end of the text current_char is None and the concatenation raises TypeError
RECURSIVE CollectCode(_, _)
CollectCode(lx, code) ==
    IF lx.current_char = "}" THEN [lx |-> lx, code |-> code, exc |-> ""]
    ELSE IF lx.current_char = NoChar THEN [lx |-> lx, code |-> code, exc |-> "TypeError"]
    ELSE CollectCode(advance(lx), Append(code, lx.current_char))

\* the block "if self.current_char == '$' and self.previous_char != '\\'" of
\* make_string; code is not emptied between two interpolations
Interpolation(lx, string, code, st) ==
    IF ~(lx.current_char = "$" /\ lx.previous_char # "\\") THEN SR(lx, string, code, st, "")
    ELSE IF advance(lx).current_char # "{" THEN SR(advance(lx), string, code, st, "")
    ELSE With(CollectCode(advance(advance(lx)), code), LAMBDA c :
         IF c.exc # "" THEN SR(c.lx, string, c.code, st, c.exc)
         ELSE With(run_interpolation(c.code, st), LAMBDA code_result :
              IF code_result.exc # "" THEN SR(advance(c.lx), string, c.code, code_result.st,
                                              code_result.exc)
              ELSE SR(advance(c.lx),
                      string \o (IF code_result.tuple THEN TupleStr(code_result.error)
                                 ELSE PyStr(code_result.value, code_result.st.lists)),
                      c.code, code_result.st, "")))

escape_characters == [c \in {"n", "t", "$"} |->
                        CASE c = "n" -> <<"\n">> [] c = "t" -> <<"\t">> [] OTHER -> <<"\\", "$">>]

\* one character of the while loop of make_string: what it adds to string, and
\* the escape_character it sets
StringStep(current_char, escape_character) ==
    IF escape_character
    THEN [add |-> IF current_char \in DOMAIN escape_characters
                  THEN escape_characters[current_char] ELSE <<current_char>>,
          escape_character |-> TRUE]
    ELSE IF current_char = "\\" THEN [add |-> <<>>, escape_character |-> TRUE]
    ELSE [add |-> <<current_char>>, escape_character |-> FALSE]

\* the while loop of make_string; every pass ends with "self.advance();
\* escape_character = False"
RECURSIVE StringLoop(_, _, _, _, _)
StringLoop(lx, string, code, escape_character, st) ==
    IF ~(lx.current_char # NoChar /\ (lx.current_char # "\"" \/ escape_character))
    THEN SR(lx, string, code, st, "")
    ELSE With(Interpolation(advance(lx),
                            string \o StringStep(lx.current_char, escape_character).add,
                            code, st), LAMBDA i :
         IF i.exc # "" THEN i
         ELSE StringLoop(i.lx, i.string, i.code, FALSE, i.st))

make_string(lx, st) ==
    With(Interpolation(advance(lx), <<>>, <<>>, st), LAMBDA i :
    IF i.exc # "" THEN LexRes(i.lx, Tok("STRING"), NoError, i.st, i.exc)
    ELSE With(StringLoop(i.lx, i.string, i.code, FALSE, i.st), LAMBDA s :
         LexRes(advance(s.lx), TokString(s.string), NoError, s.st, s.exc)))

\* what make_tokens hands back
TR(tokens, error, st, exc) == [tokens |-> tokens, error |-> error, st |-> st, exc |-> exc]

\* the token, if any, the branch of make_tokens for current_char makes
NextToken(lx, st) ==
    CASE lx.current_char \in DIGITS -> make_number(lx, st)
      [] lx.current_char \in LETTERS -> make_identifier(lx, st)
      [] lx.current_char = "\"" -> make_string(lx, st)
      [] lx.current_char \in {";", "\n"} -> LexRes(advance(lx), Tok("NEWLINE"), NoError, st, "")
      [] lx.current_char \in DOMAIN SingleChar ->
            LexRes(advance(lx), Tok(SingleChar[lx.current_char]), NoError, st, "")
      [] lx.current_char = "!" -> make_not_equals(lx, st)
      [] lx.current_char = "=" -> TwoChar(lx, st, "EQ", [c \in {"=", ">"} |->
                                                  IF c = "=" THEN "EE" ELSE "ARROW"])
      [] lx.current_char = "<" -> TwoChar(lx, st, "LT", [c \in {"="} |-> "LTE"])
      [] lx.current_char = ">" -> TwoChar(lx, st, "GT", [c \in {"="} |-> "GTE"])
      [] OTHER -> LexRes(advance(lx), Tok("EOF"),
                         IllegalCharError("'" \o lx.current_char \o "'"), st, "")

\* the while loop of make_tokens
RECURSIVE TokensLoop(_, _, _)
TokensLoop(lx, tokens, st) ==
    IF lx.current_char = NoChar THEN TR(Append(tokens, Tok("EOF")), NoError, st, "")
    ELSE IF lx.current_char \in {" ", "\t"} THEN TokensLoop(advance(lx), tokens, st)
    ELSE IF lx.current_char = "#"
    THEN With(skip_comment(lx), LAMBDA s :
         IF s.exc # "" THEN TR(tokens, NoError, st, s.exc) ELSE TokensLoop(s.lx, tokens, st))
    ELSE With(NextToken(lx, st), LAMBDA t :
         IF t.exc # "" THEN TR(tokens, NoError, t.st, t.exc)
         ELSE IF IsError(t.error) THEN TR(<<>>, t.error, t.st, "")
         ELSE TokensLoop(t.lx, Append(tokens, t.tok), t.st))

\* Lexer(fn, text).make_tokens()
make_tokens(text, st) == TokensLoop(Lexer(text), <<>>, st)

\* run(fn, text): the lexer, the parser, then the interpreter on the tree
run_text(text, st) ==
    With(make_tokens(text, st), LAMBDA t :
    IF t.exc # "" THEN [value |-> None, error |-> NoError, st |-> t.st, exc |-> t.exc]
    ELSE IF IsError(t.error) THEN [value |-> None, error |-> t.error, st |-> t.st, exc |-> ""]
    ELSE With(parse(t.tokens), LAMBDA ast :
         IF ast.exc # "" THEN [value |-> None, error |-> NoError, st |-> t.st, exc |-> ast.exc]
         ELSE IF IsError(ast.error)
         THEN [value |-> None, error |-> ast.error, st |-> t.st, exc |-> ""]
         ELSE run(ast.node, t.st)))

-----------------------------------------------------------------------------
(* Programs *)

NumLit(n) == NumberNode(TokInt(n))
StrLit(s) == StringNode(TokString(s))
FloatLit(n, d, text) == NumberNode(TokFloat(n, d, text))

\* the expressions E of the programs with a parameter: 0, 7, 0.5, "", "a"
ValueExprs ==
    << NumLit(0), NumLit(7), FloatLit(1, 2, <<"0", ".", "5">>), StrLit(<<>>), StrLit(<<"a">>) >>

\* function f() NEWLINE return E NEWLINE var x1 = 1 NEWLINE end NEWLINE f()
ReturnEarly(e) ==
    ArrayNode(<< FuncDefNode("f", <<>>, <<>>,
                    ArrayNode(<<ReturnNode(e), VarAssignNode("x1", NumLit(1))>>), FALSE),
                 CallNode(AccessNode("f"), <<>>) >>)

\* var s = E NEWLINE function f() => s NEWLINE f()
GlobalInBody(e) ==
    ArrayNode(<< VarAssignNode("s", e),
                 FuncDefNode("f", <<>>, <<>>, AccessNode("s"), TRUE),
                 CallNode(AccessNode("f"), <<>>) >>)

\* var s = E NEWLINE s
GlobalAtRoot(e) == ArrayNode(<< VarAssignNode("s", e), AccessNode("s") >>)

\* function g() => a NEWLINE function f(a) => g() NEWLINE f(5)
CallerParam ==
    ArrayNode(<< FuncDefNode("g", <<>>, <<>>, AccessNode("a"), TRUE),
                 FuncDefNode("f", <<"a">>, <<>>, CallNode(AccessNode("g"), <<>>), TRUE),
                 CallNode(AccessNode("f"), <<NumLit(5)>>) >>)

\* function g() => c NEWLINE function f() NEWLINE scoped c = 5 NEWLINE return g()
\* NEWLINE end NEWLINE f()
CallerScoped ==
    ArrayNode(<< FuncDefNode("g", <<>>, <<>>, AccessNode("c"), TRUE),
                 FuncDefNode("f", <<>>, <<>>,
                    ArrayNode(<< ScopedAssignNode("c", NumLit(5)),
                                 ReturnNode(CallNode(AccessNode("g"), <<>>)) >>), FALSE),
                 CallNode(AccessNode("f"), <<>>) >>)

\* function h(a) => a + 1 NEWLINE h(5)
OwnParam ==
    ArrayNode(<< FuncDefNode("h", <<"a">>, <<>>,
                    BinaryOpNode(AccessNode("a"), "PLUS", NumLit(1)), TRUE),
                 CallNode(AccessNode("h"), <<NumLit(5)>>) >>)

StrictInt == ArrayNode(<< StrictAssignNode("n", NumLit(5), "int") >>)
StrictIntAgain == ArrayNode(<< StrictAssignNode("n", NumLit(6), "int") >>)
StrictString == ArrayNode(<< StrictAssignNode("n", StrLit(<<"a">>), "string") >>)
\* strict int n = 5 NEWLINE strict string n = "a"
StrictTwice ==
    ArrayNode(<< StrictAssignNode("n", NumLit(5), "int"),
                 StrictAssignNode("n", StrLit(<<"a">>), "string") >>)
VarN == ArrayNode(<< VarAssignNode("n", StrLit(<<"a">>)) >>)
VarNInt == ArrayNode(<< VarAssignNode("n", NumLit(9)) >>)
\* for n = 0 until 2 => 1
ForN == ArrayNode(<< ForNode("n", NumLit(0), NumLit(2), NoNode, NumLit(1), FALSE) >>)
\* function n() => 1
FuncN == ArrayNode(<< FuncDefNode("n", <<>>, <<>>, NumLit(1), TRUE) >>)

\* var a = [1] NEWLINE var b = a NEWLINE a OP X NEWLINE b
ArrayOp(op, x) ==
    ArrayNode(<< VarAssignNode("a", ArrayNode(<<NumLit(1)>>)),
                 VarAssignNode("b", AccessNode("a")),
                 BinaryOpNode(AccessNode("a"), op, x),
                 AccessNode("b") >>)

Family(name, f(_)) == [k \in 1..Len(ValueExprs) |-> [name |-> name, arg |-> k, ast |-> f(ValueExprs[k])]]
Single(name, ast) == <<[name |-> name, arg |-> 0, ast |-> ast]>>

Programs ==
    Family("ReturnEarly", ReturnEarly) \o Family("GlobalInBody", GlobalInBody)
    \o Family("GlobalAtRoot", GlobalAtRoot)
    \o Single("CallerParam", CallerParam) \o Single("CallerScoped", CallerScoped)
    \o Single("OwnParam", OwnParam)
    \o Single("StrictInt", StrictInt) \o Single("StrictIntAgain", StrictIntAgain)
    \o Single("StrictString", StrictString) \o Single("StrictTwice", StrictTwice)
    \o Single("VarN", VarN) \o Single("VarNInt", VarNInt)
    \o Single("ForN", ForN) \o Single("FuncN", FuncN)
    \o Single("ArrayAdd", ArrayOp("PLUS", NumLit(2)))
    \o Single("ArraySub", ArrayOp("MINUS", NumLit(0)))
    \o Single("ArrayMul", ArrayOp("MUL", ArrayNode(<<NumLit(3)>>)))

-----------------------------------------------------------------------------
(* The interpreter as a state machine: the host calls run on one text after  *)
(* another; the tables and the objects they hold live on between the calls.  *)
(* An exception run does not catch ends the process.                         *)

NoRun ==
    [family |-> "", prog |-> <<>>, value |-> None, error |-> NoError, exc |-> "",
     tokens |-> <<>>]

Init ==
    /\ tables = InitTables
    /\ contexts = <<>>
    /\ lists = <<>>
    /\ last = NoRun
    /\ runs = 0
    /\ rts = [i \in 1..NumResults |-> RTResult]

\* one call of run; family and prog name the text
Call(family, prog, ast) ==
    \E r \in {run(ast, St(tables, contexts, lists))} :
       /\ last.exc = ""
       /\ tables' = r.st.tables
       /\ contexts' = r.st.contexts
       /\ lists' = r.st.lists
       /\ last' = [family |-> family, prog |-> prog, value |-> r.value, error |-> r.error,
                   exc |-> r.exc, tokens |-> <<>>]
       /\ runs' = runs + 1
       /\ UNCHANGED rts

Run(k) ==
    /\ runs < MaxRuns
    /\ Call("script", <<k>>, Programs[k].ast)

Next == \E k \in 1..Len(Programs) : Run(k)

Spec == Init /\ [][Next]_vars

-----------------------------------------------------------------------------
(* RTResult objects on their own: a pool of them, and the methods of the     *)
(* class applied in any order to any of them.                                *)

\* values and errors handed to the methods
ValuePool == {Number(7), String(<<>>)}
ErrorPool == {RTError("Illegal operation")}

\* RTResult()
Construct(i) ==
    /\ rts' = [rts EXCEPT ![i] = RTResult]
    /\ UNCHANGED <<tables, contexts, lists, last, runs>>

\* rts[i].register(rts[j])
Register(i, j) ==
    /\ rts' = [rts EXCEPT ![i] = register(rts[i], rts[j])]
    /\ UNCHANGED <<tables, contexts, lists, last, runs>>

Success(i, v) ==
    /\ rts' = [rts EXCEPT ![i] = success(rts[i], v)]
    /\ UNCHANGED <<tables, contexts, lists, last, runs>>

SuccessReturn(i, v) ==
    /\ rts' = [rts EXCEPT ![i] = success_return(rts[i], v)]
    /\ UNCHANGED <<tables, contexts, lists, last, runs>>

SuccessContinue(i) ==
    /\ rts' = [rts EXCEPT ![i] = success_continue(rts[i])]
    /\ UNCHANGED <<tables, contexts, lists, last, runs>>

SuccessBreak(i) ==
    /\ rts' = [rts EXCEPT ![i] = success_break(rts[i])]
    /\ UNCHANGED <<tables, contexts, lists, last, runs>>

Failure(i, e) ==
    /\ rts' = [rts EXCEPT ![i] = failure(rts[i], e)]
    /\ UNCHANGED <<tables, contexts, lists, last, runs>>

NextRT ==
    \E i \in 1..NumResults :
        \/ Construct(i)
        \/ \E j \in 1..NumResults : Register(i, j)
        \/ \E v \in ValuePool \cup {None} : Success(i, v)
        \/ \E v \in ValuePool : SuccessReturn(i, v)
        \/ SuccessContinue(i)
        \/ SuccessBreak(i)
        \/ \E e \in ErrorPool : Failure(i, e)

SpecRT == Init /\ [][NextRT]_vars

-----------------------------------------------------------------------------
(* One operator application, run as a one-line text on a freshly loaded      *)
(* interpreter.                                                              *)

\* operands of every kind: 0, 2, -1, 2.0, "", "a", [1], 1 == 1,
\* function () => 1, print
OperandExprs ==
    << NumLit(0), NumLit(2), UnaryOpNode("MINUS", NumLit(1)),
       FloatLit(2, 1, <<"2", ".", "0">>), StrLit(<<>>), StrLit(<<"a">>),
       ArrayNode(<<NumLit(1)>>), BinaryOpNode(NumLit(1), "EE", NumLit(1)),
       FuncDefNode("", <<>>, <<>>, NumLit(1), TRUE), AccessNode("print") >>

UnaryOps == {"MINUS", "not", "PLUS"}

BinaryRun(op, i, j) ==
    /\ runs = 0
    /\ Call("binary", <<op, i, j>>,
            ArrayNode(<<BinaryOpNode(OperandExprs[i], op, OperandExprs[j])>>))

UnaryRun(op, i) ==
    /\ runs = 0
    /\ Call("unary", <<op, i>>, ArrayNode(<<UnaryOpNode(op, OperandExprs[i])>>))

NextOps ==
    \/ \E op \in BinaryOps, i, j \in 1..Len(OperandExprs) : BinaryRun(op, i, j)
    \/ \E op \in UnaryOps, i \in 1..Len(OperandExprs) : UnaryRun(op, i)

SpecOps == Init /\ [][NextOps]_vars

-----------------------------------------------------------------------------
(* One call, run as a text on a freshly loaded interpreter: a function of p  *)
(* parameters called with n arguments, or a built-in called with n           *)
(* arguments.  Parser.func_def takes a default after the first parameter     *)
(* and after the last one.                                                   *)

MaxParams == 3
MaxArgs == 4

ParamNames == <<"p1", "p2", "p3", "p4", "p5">>
Shapes == {"none", "first", "last", "both"}
DefaultToks == <<TokInt(3), TokString(<<"s">>), TokInt(0)>>

\* which parameters of a shape carry a default
Defaulted(p, shape) ==
    CASE shape = "none" -> {}
      [] shape = "first" -> {1}
      [] shape = "last" -> {p}
      [] OTHER -> {1, p}

ShapeOk(p, shape) ==
    CASE shape = "none" -> TRUE
      [] shape = "first" -> p >= 1
      [] OTHER -> p >= 2

ArgNodes(n) == [i \in 1..n |-> NumLit(10 * i)]

\* function f(p1, .., pp) => var touched = 1 NEWLINE f(10, .., 10 n), with the
\* default token t after the parameters of the shape
FunctionCallText(p, shape, n, t) ==
    ArrayNode(<< FuncDefNode("f", SubSeq(ParamNames, 1, p),
                    [i \in 1..Cardinality(Defaulted(p, shape)) |-> DefaultToks[t]],
                    VarAssignNode("touched", NumLit(1)), TRUE),
                 CallNode(AccessNode("f"), ArgNodes(n)) >>)

FunctionCall(p, shape, n, t) ==
    /\ runs = 0
    /\ ShapeOk(p, shape)
    /\ Call("function", <<p, shape, n, t>>, FunctionCallText(p, shape, n, t))

BuiltInNames == {"isNumber", "isString", "length", "cls"}

BuiltInCall(name, n) ==
    /\ runs = 0
    /\ Call("builtin", <<name, n>>, ArrayNode(<<CallNode(AccessNode(name), ArgNodes(n))>>))

NextCall ==
    \/ \E p \in 0..MaxParams, shape \in Shapes, n \in 0..MaxArgs, t \in 1..Len(DefaultToks) :
            FunctionCall(p, shape, n, t)
    \/ \E name \in BuiltInNames, n \in 0..MaxArgs : BuiltInCall(name, n)

SpecCall == Init /\ [][NextCall]_vars

-----------------------------------------------------------------------------
(* Properties *)

\* the same value, whatever context it carries
SameAs(v, w) ==
    /\ v.kind = w.kind
    /\ v.py = w.py
    /\ v.str = w.str
    /\ v.num * w.den = w.num * v.den

ProgramName == IF last.family = "script" THEN Programs[last.prog[1]].name ELSE ""
\* the value of E in the program last run
ProgramValue == ValueExprs[Programs[last.prog[1]].arg].tok.value
Succeeded == last.exc = "" /\ ~IsError(last.error)
\* the value of the k-th statement, and of the last one, of the text last run
StatementValue(k) == lists[last.value.ref][k]
FinalValue == StatementValue(Len(lists[last.value.ref]))
GlobalBound(name) == name \in DOMAIN tables[GLOBAL].symbols
\* the int payloads of the elements of an Array
Payloads(array) == [k \in 1..Len(lists[array.ref]) |-> lists[array.ref][k].num]

\* C1: in a block-form function, "return E" ends the body whatever the value v
\* of E is (the empty String and Number 0 included): the statement after it is
\* not evaluated and the call yields v.
C1_ReturnEndsBody ==
    ProgramName = "ReturnEarly" =>
        /\ Succeeded
        /\ SameAs(FinalValue, ProgramValue)
        /\ ~GlobalBound("x1")

Signals(r) ==
    {s \in {"error", "return", "continue", "break"} :
        \/ s = "error" /\ IsError(r.error)
        \/ s = "return" /\ r.func_return_value.kind # "None"
        \/ s = "continue" /\ r.loop_should_continue
        \/ s = "break" /\ r.loop_should_break}

\* C2: every RTResult has at most one of error, func_return_value,
\* loop_should_continue and loop_should_break set.
C2_AtMostOneSignal == \A i \in 1..NumResults : Cardinality(Signals(rts[i])) <= 1

\* a result that kept its value while register copied a return signal into it,
\* next to a result that carries an error
C2_Witness ==
    \E i, j \in 1..NumResults :
        /\ rts[i].value.kind # "None"
        /\ Signals(rts[i]) = {"return"}
        /\ Signals(rts[j]) = {"error"}

\* C3: a function defined at the root and called from the body of another
\* function runs in a context whose parent is the root context, and the
\* caller's parameter or scoped binding does not resolve from its body.
C3_LexicalScope ==
    /\ ProgramName \in {"CallerParam", "CallerScoped"} =>
            last.exc = "" /\ last.error.error_name = "Runtime Error"
    /\ \A c \in 1..Len(contexts) :
            contexts[c].display_name = "g" =>
                contexts[contexts[c].parent].display_name = "BASE_LEVEL_SCRIPT"

\* the p, d and n of the call last run
CallP ==
    IF last.family = "function" THEN last.prog[1]
    ELSE Len(BuiltInArgNames(InitTables[GLOBAL].symbols[last.prog[1]].name))
CallD == IF last.family = "function" THEN Cardinality(Defaulted(last.prog[1], last.prog[2])) ELSE 0
CallN == IF last.family = "function" THEN last.prog[3] ELSE last.prog[2]

\* C4: a call of a function or built-in with p parameters, d of them with
\* defaults, and n arguments where n > p or n < p - d ends with an RTError and
\* the body is not evaluated.
C4_ArityEnforced ==
    (last.family \in {"function", "builtin"} /\ (CallN > CallP \/ CallN < CallP - CallD)) =>
        /\ last.exc = ""
        /\ last.error.error_name = "Runtime Error"
        /\ ~GlobalBound("touched")

\* C5: after a call that passes the arity check every parameter is bound in
\* the execution context: the i-th to the i-th argument, one past the
\* arguments to its default, an INT default as the Number and a STRING default
\* as the String of the token.
C5_ParametersBound ==
    (/\ last.family = "function"
     /\ CallP - CallD <= CallN /\ CallN <= CallP
     /\ ~should_return(check_args(SubSeq(ParamNames, 1, CallP),
                                  Defaults([i \in 1..CallD |-> DefaultToks[last.prog[4]]]),
                                  ArgNodes(CallN)).res)) =>
        /\ last.exc = ""
        /\ Len(contexts) = 2
        /\ \A i \in 1..CallP :
            /\ ParamNames[i] \in DOMAIN tables[contexts[2].symbol_table].symbols
            /\ SameAs(tables[contexts[2].symbol_table].symbols[ParamNames[i]],
                      IF i <= CallN THEN Number(10 * i) ELSE DefaultToks[last.prog[4]].value)

\* C6: after "var s = E" an access to s, at the root or in the body of a
\* function, yields the value of E, whatever its kind (the empty String
\* included).
C6_GlobalResolves ==
    ProgramName \in {"GlobalInBody", "GlobalAtRoot"} =>
        Succeeded /\ SameAs(FinalValue, ProgramValue)

\* the global table records name as strict with the type type_
StrictlyTyped(tabs, name, type_) ==
    /\ Truthy(Get(tabs[GLOBAL].symbols_are_strict_vars, name))
    /\ Get(tabs[GLOBAL].var_types, name) = TypeName(type_)

InvalidSyntax(e) == e.error_name = "Invalid Syntax"

\* C7: a text that declares n strict with one type and then strict with another
\* is rejected with InvalidSyntax, and so is a text that declares n strict with
\* another type than an earlier run did.
C7_StrictRedeclared ==
    [][runs' = runs + 1 =>
        /\ Programs[last'.prog[1]].name = "StrictTwice" => InvalidSyntax(last'.error)
        /\ (StrictlyTyped(tables, "n", "int") /\ Programs[last'.prog[1]].name = "StrictString")
                => InvalidSyntax(last'.error)]_vars

KindOfType(type_) == IF type_ = "string" THEN "String" ELSE "Number"

\* C8: once n is strict with type T, after any later run that succeeds (a var,
\* strict, for-loop or named function binding among them) the global table
\* still records n as strict with type T and holds a value of kind T.
C8_StrictSurvives ==
    [][\A type_ \in {"int", "string"} :
        (StrictlyTyped(tables, "n", type_) /\ runs' = runs + 1
            /\ last'.exc = "" /\ ~IsError(last'.error)) =>
                /\ StrictlyTyped(tables', "n", type_)
                /\ tables'[GLOBAL].symbols["n"].kind = KindOfType(type_)]_vars

\* C9: every binary and unary operator applied to operands of any kinds ends
\* with a value or an RTError; no exception escapes.
C9_OperatorsTotal == last.family \in {"binary", "unary"} => last.exc = ""

\* C10: A + x, A - i and A * B yield a new array and leave A, and a variable
\* bound to A before, as they were.
C10_ArrayOpsPure ==
    (ProgramName \in {"ArrayAdd", "ArraySub", "ArrayMul"} /\ Succeeded) =>
        /\ Payloads(tables[GLOBAL].symbols["a"]) = <<1>>
        /\ Payloads(tables[GLOBAL].symbols["b"]) = <<1>>
        /\ StatementValue(3).ref # tables[GLOBAL].symbols["a"].ref

\* the kind of each operand of OperandExprs
OperandKind ==
    << "Number", "Number", "Number", "Number", "String", "String", "Array", "Bool",
       "Function", "Function" >>

\* C11: for operands of different kinds, in either order, == yields Bool 0 and
\* != yields Bool 1, without error.
C11_CrossKindEquality ==
    (/\ last.family = "binary"
     /\ last.prog[1] \in {"EE", "NE"}
     /\ OperandKind[last.prog[2]] # OperandKind[last.prog[3]]) =>
        /\ Succeeded
        /\ FinalValue.kind = "Bool"
        /\ FinalValue.num = (IF last.prog[1] = "EE" THEN 0 ELSE 1)

-----------------------------------------------------------------------------
(* A value of each kind as the condition of an if and of a while, run as a   *)
(* text on a freshly loaded interpreter.                                     *)

\* 0, 7, 0.5, -1, "", "a", [], [1], 1 == 1, 1 == 2, function () => 1, print
CondExprs ==
    << NumLit(0), NumLit(7), FloatLit(1, 2, <<"0", ".", "5">>), UnaryOpNode("MINUS", NumLit(1)),
       StrLit(<<>>), StrLit(<<"a">>), ArrayNode(<<>>), ArrayNode(<<NumLit(1)>>),
       BinaryOpNode(NumLit(1), "EE", NumLit(1)), BinaryOpNode(NumLit(1), "EE", NumLit(2)),
       FuncDefNode("", <<>>, <<>>, NumLit(1), TRUE), AccessNode("print") >>

\* if Ci then 1 elif Cj then 2 else 3
IfRun(i, j) ==
    /\ runs = 0
    /\ Call("if", <<i, j>>,
            ArrayNode(<<IfNode(<<IfCase(CondExprs[i], NumLit(1), FALSE),
                                 IfCase(CondExprs[j], NumLit(2), FALSE)>>,
                               ElseCase(NumLit(3), FALSE))>>))

\* while Ci then
\*   var hit = 1
\*   break
\* end
WhileRun(i) ==
    /\ runs = 0
    /\ Call("while", <<i>>,
            ArrayNode(<<WhileNode(CondExprs[i],
                                  ArrayNode(<<VarAssignNode("hit", NumLit(1)), BreakNode>>),
                                  TRUE)>>))

NextCond ==
    \/ \E i, j \in 1..Len(CondExprs) : IfRun(i, j)
    \/ \E i \in 1..Len(CondExprs) : WhileRun(i)

SpecCond == Init /\ [][NextCond]_vars

\* which of CondExprs are to count as true: a non-zero Number, a Bool equal to
\* 1, a non-empty String, every Array and every function
CondTruthy ==
    << FALSE, TRUE, TRUE, TRUE, FALSE, TRUE, TRUE, TRUE, TRUE, FALSE, TRUE, TRUE >>

\* C12: a value used as the condition of an if or a while is truthy exactly
\* when it is a non-zero Number, a Bool equal to 1, a non-empty String, or any
\* Array or function value.
C12_Truthiness ==
    /\ last.family = "if" =>
        /\ Succeeded
        /\ SameAs(FinalValue, Number(IF CondTruthy[last.prog[1]] THEN 1
                                     ELSE IF CondTruthy[last.prog[2]] THEN 2 ELSE 3))
    /\ last.family = "while" =>
        /\ Succeeded
        /\ GlobalBound("hit") <=> CondTruthy[last.prog[1]]

-----------------------------------------------------------------------------
(* Lexer.make_tokens on a text, on a freshly loaded interpreter.  A text is  *)
(* up to MaxPieces pieces, after an opening quote or not, before a closing   *)
(* quote or not.                                                             *)

MaxPieces == 3

\* a  \n  \t  \$  \"  \\  {1}  ${1}  ${2}  ${1+2}  #  newline  ${1  !  $
Pieces ==
    << <<"a">>, <<"\\", "n">>, <<"\\", "t">>, <<"\\", "$">>, <<"\\", "\"">>, <<"\\", "\\">>,
       <<"{", "1", "}">>, <<"$", "{", "1", "}">>, <<"$", "{", "2", "}">>,
       <<"$", "{", "1", "+", "2", "}">>, <<"#">>, <<"\n">>, <<"$", "{", "1">>, <<"!">>,
       <<"$">> >>

RECURSIVE Flatten(_)
Flatten(seqs) == IF seqs = <<>> THEN <<>> ELSE Head(seqs) \o Flatten(Tail(seqs))

PieceText(quoted, closed, ps) ==
    (IF quoted THEN <<"\"">> ELSE <<>>) \o Flatten([k \in 1..Len(ps) |-> Pieces[ps[k]]])
        \o (IF closed THEN <<"\"">> ELSE <<>>)

LexRun(quoted, closed, ps) ==
    /\ runs = 0
    /\ \E t \in {make_tokens(PieceText(quoted, closed, ps), St(tables, contexts, lists))} :
       /\ tables' = t.st.tables
       /\ contexts' = t.st.contexts
       /\ lists' = t.st.lists
       /\ last' = [family |-> "lex", prog |-> <<quoted, closed, ps>>, value |-> None,
                   error |-> t.error, exc |-> t.exc, tokens |-> t.tokens]
       /\ runs' = runs + 1
       /\ UNCHANGED rts

-----------------------------------------------------------------------------
(* run on a text with a string literal that interpolates, before or after a  *)
(* declaration, on a freshly loaded interpreter.                             *)

VarDecl(name, value) == <<"v", "a", "r", " ", name, " ", "=", " ">> \o value
Quoted(body) == <<"\"">> \o body \o <<"\"">>
Fragment(code) == <<"$", "{">> \o code \o <<"}">>

\* var a = 7;"${a}"          var b = 1;"${var b = 2}"
\* "${var b = 2}";var b = 1  "${a}";var a = 7
\* return 1    break    continue    1;return    1 + a
Texts ==
    << VarDecl("a", <<"7">>) \o <<";">> \o Quoted(Fragment(<<"a">>)),
       VarDecl("b", <<"1">>) \o <<";">> \o Quoted(Fragment(VarDecl("b", <<"2">>))),
       Quoted(Fragment(VarDecl("b", <<"2">>))) \o <<";">> \o VarDecl("b", <<"1">>),
       Quoted(Fragment(<<"a">>)) \o <<";">> \o VarDecl("a", <<"7">>),
       <<"r", "e", "t", "u", "r", "n", " ", "1">>,
       <<"b", "r", "e", "a", "k">>,
       <<"c", "o", "n", "t", "i", "n", "u", "e">>,
       <<"1", ";", "r", "e", "t", "u", "r", "n">>,
       <<"1", " ", "+", " ", "a">> >>

TextRun(k) ==
    /\ runs = 0
    /\ \E r \in {run_text(Texts[k], St(tables, contexts, lists))} :
       /\ tables' = r.st.tables
       /\ contexts' = r.st.contexts
       /\ lists' = r.st.lists
       /\ last' = [family |-> "text", prog |-> <<k>>, value |-> r.value, error |-> r.error,
                   exc |-> r.exc, tokens |-> <<>>]
       /\ runs' = runs + 1
       /\ UNCHANGED rts

NextLex ==
    \/ \E quoted, closed \in BOOLEAN, n \in 0..MaxPieces :
            \E ps \in [1..n -> 1..Len(Pieces)] : LexRun(quoted, closed, ps)
    \/ \E k \in 1..Len(Texts) : TextRun(k)

SpecLex == Init /\ [][NextLex]_vars

\* what each of the first seven pieces is to contribute to the value of a
\* string literal: a, newline, tab, $, ", \, {1}
EscapeMeaning ==
    << <<"a">>, <<"\n">>, <<"\t">>, <<"$">>, <<"\"">>, <<"\\">>, <<"{", "1", "}">> >>

\* the text last lexed is one string literal, opened and closed, of pieces
\* among those of range
LiteralOf(range) ==
    /\ last.family = "lex"
    /\ last.prog[1] /\ last.prog[2]
    /\ \A k \in 1..Len(last.prog[3]) : last.prog[3][k] \in range

\* C13: in a string literal \n, \t and \$ contribute a newline, a tab and a $,
\* a backslash before any other character (a quote included) contributes that
\* character without ending the literal, and an escaped $ starts no
\* interpolation.
C13_Escapes ==
    LiteralOf(1..Len(EscapeMeaning)) =>
        /\ last.exc = ""
        /\ ~IsError(last.error)
        /\ last.tokens =
            << TokString(Flatten([k \in 1..Len(last.prog[3]) |-> EscapeMeaning[last.prog[3][k]]])),
               Tok("EOF") >>

\* what the pieces a, ${1}, ${2} and ${1+2} are to contribute to the value of
\* a string literal: the text itself, and the string form of the value of the
\* fragment
InterpolationMeaning ==
    [p \in {1, 8, 9, 10} |->
        CASE p = 1 -> <<"a">> [] p = 8 -> <<"1">> [] p = 9 -> <<"2">> [] OTHER -> <<"3">>]

\* C14: the value of a string literal with k >= 1 interpolations is its text
\* with each ${Fi} replaced by the string form of the value of Fi alone;
\* "${1+2}" lexes to 3.
C14_Interpolation ==
    (LiteralOf(DOMAIN InterpolationMeaning) /\ \E k \in 1..Len(last.prog[3]) : last.prog[3][k] # 1) =>
        /\ last.exc = ""
        /\ ~IsError(last.error)
        /\ last.tokens =
            << TokString(Flatten([k \in 1..Len(last.prog[3]) |->
                                    InterpolationMeaning[last.prog[3][k]]])),
               Tok("EOF") >>

\* C15: within one text, an interpolation fragment reads the global table and
\* makes its bindings after the statements before the string literal and
\* before the statements after it: the fragment ${a} after "var a = 7" reads
\* 7, a binding of b by a fragment replaces one by an earlier statement and is
\* replaced by one of a later statement, and ${a} before "var a = 7" does not
\* read 7.
C15_InterpolationOrder ==
    (last.family = "text" /\ last.prog[1] <= 4) =>
        /\ Succeeded
        /\ last.prog[1] = 1 => StatementValue(2).str = <<"7">>
        /\ last.prog[1] = 2 => SameAs(tables[GLOBAL].symbols["b"], Number(2))
        /\ last.prog[1] = 3 => SameAs(tables[GLOBAL].symbols["b"], Number(1))
        /\ last.prog[1] = 4 => StatementValue(1).str # <<"7">>

\* C16: on every text, one that ends inside a # comment, inside a string
\* literal or inside a ${ fragment included, make_tokens ends and returns
\* either tokens that end with EOF and no error, or no token and an error.
C16_LexerTotal ==
    last.family = "lex" =>
        /\ last.exc = ""
        /\ \/ /\ ~IsError(last.error)
              /\ last.tokens # <<>>
              /\ last.tokens[Len(last.tokens)].type = "EOF"
           \/ /\ IsError(last.error)
              /\ last.tokens = <<>>

\* C17: whenever run returns, exactly one of the value and the error it
\* returns is not None, a text whose top level executes return, break or
\* continue included.
C17_ValueXorError ==
    (last.family = "text" /\ last.exc = "") => (last.value.kind # "None") # IsError(last.error)

-----------------------------------------------------------------------------
(* One for loop, run as a text on a freshly loaded interpreter:              *)
(*   for i = S until E [step T] => i                                         *)
(* or, in the block form,                                                    *)
(*   for i = S until E [step T] then                                         *)
(*     i                                                                     *)
(*   end                                                                     *)

MaxFor == 3

\* the steps: none, 1, 2, -1, -2, 0
StepNodes ==
    << NoNode, NumLit(1), NumLit(2), UnaryOpNode("MINUS", NumLit(1)),
       UnaryOpNode("MINUS", NumLit(2)), NumLit(0) >>
StepOf == <<1, 1, 2, -1, -2, 0>>

\* a loop with step 0 and S < E does not end
ForRun(s, e, t, block) ==
    /\ runs = 0
    /\ ~(StepOf[t] = 0 /\ s < e)
    /\ Call("for", <<s, e, t, block>>,
            ArrayNode(<<ForNode("i", NumLit(s), NumLit(e), StepNodes[t],
                                IF block THEN ArrayNode(<<AccessNode("i")>>) ELSE AccessNode("i"),
                                block)>>))

NextFor ==
    \E s, e \in 0..MaxFor, t \in 1..Len(StepNodes), block \in BOOLEAN : ForRun(s, e, t, block)

SpecFor == Init /\ [][NextFor]_vars

\* S, S + T, S + 2T, ... while below E (T >= 0) or above E (T < 0)
RECURSIVE Iterations(_, _, _)
Iterations(s, e, t) ==
    IF (t >= 0 /\ s < e) \/ (t < 0 /\ s > e) THEN <<s>> \o Iterations(s + t, e, t) ELSE <<>>

\* C18: an inline for loop whose body raises nothing evaluates the body once
\* for each i = S, S + T, ... while i < E (T >= 0, 1 when there is no step) or
\* i > E (T < 0), with the loop variable resolving to Number(i), and yields
\* the Array of the body's values in that order; the block form yields the
\* no-return sentinel.
C18_ForLoop ==
    last.family = "for" =>
        /\ Succeeded
        /\ ~last.prog[4] =>
            /\ FinalValue.kind = "Array"
            /\ \A k \in 1..Len(lists[FinalValue.ref]) :
                    lists[FinalValue.ref][k].kind = "Number" /\ lists[FinalValue.ref][k].py = "int"
            /\ Payloads(FinalValue) = Iterations(last.prog[1], last.prog[2], StepOf[last.prog[3]])
        /\ last.prog[4] => SameAs(FinalValue, String_no_return)

\* the inline loop "for i = 3 until 0 step -2 => i" has yielded [3, 1]
C18_Witness ==
    /\ last.family = "for"
    /\ last.prog = <<3, 0, 5, FALSE>>
    /\ Succeeded
    /\ Payloads(FinalValue) = <<3, 1>>

-----------------------------------------------------------------------------
(* One division or remainder by zero, alone or as the value of a             *)
(* declaration, run as a text on a freshly loaded interpreter.               *)

\* 0, 1, 2, 7, -1, -7, 0.5, 2.0, INFINITY, NEGATIVE_INF
DividendExprs ==
    << NumLit(0), NumLit(1), NumLit(2), NumLit(7), UnaryOpNode("MINUS", NumLit(1)),
       UnaryOpNode("MINUS", NumLit(7)), FloatLit(1, 2, <<"0", ".", "5">>),
       FloatLit(2, 1, <<"2", ".", "0">>), AccessNode("INFINITY"), AccessNode("NEGATIVE_INF") >>

\* 0, 0.0, 1 - 1
ZeroExprs ==
    << NumLit(0), FloatLit(0, 1, <<"0", ".", "0">>), BinaryOpNode(NumLit(1), "MINUS", NumLit(1)) >>

\* a / 0, a % 0, var x = a / 0, var x = a % 0
DivRun(op, i, z, declared) ==
    /\ runs = 0
    /\ Call("div", <<op, i, z, declared>>,
            ArrayNode(<<IF declared
                        THEN VarAssignNode("x", BinaryOpNode(DividendExprs[i], op, ZeroExprs[z]))
                        ELSE BinaryOpNode(DividendExprs[i], op, ZeroExprs[z])>>))

NextDiv ==
    \E op \in {"DIV", "MOD"}, i \in 1..Len(DividendExprs), z \in 1..Len(ZeroExprs),
       declared \in BOOLEAN : DivRun(op, i, z, declared)

SpecDiv == Init /\ [][NextDiv]_vars

\* C19: for every Number a, a / 0 and a % 0 end with the RTError "Division by
\* zero", which run returns, and "var x = a / 0" leaves every symbol table as
\* it was: x is not bound.
C19_DivisionByZero ==
    last.family = "div" =>
        /\ last.exc = ""
        /\ last.error = RTError("Division by zero")
        /\ last.value = None
        /\ tables = InitTables
        /\ ~GlobalBound("x")

\* "var x = 7 % 0" has been run
C19_Witness ==
    /\ last.family = "div"
    /\ last.prog = <<"MOD", 4, 1, TRUE>>
    /\ last.error = RTError("Division by zero")
    /\ ~GlobalBound("x")

-----------------------------------------------------------------------------
(* One scoped declaration, run on a freshly loaded interpreter: as a text at *)
(* the root, or as the body of a function f that is defined, called, and     *)
(* followed by a read of the name from the root. The declaration node is the *)
(* one Parser.expression builds from the text.                               *)

ScopedNames == <<"x", "y", "z", "w">>

\* none, 0, 1, 5, 7, -1, 1 + 2, 2 * 3, "a"
Initializers ==
    << <<>>, <<"0">>, <<"1">>, <<"5">>, <<"7">>, <<"-", "1">>, <<"1", " ", "+", " ", "2">>,
       <<"2", " ", "*", " ", "3">>, Quoted(<<"a">>) >>

\* scoped NAME            scoped NAME = E
ScopedText(n, i) ==
    <<"s", "c", "o", "p", "e", "d", " ", ScopedNames[n]>>
        \o (IF i = 1 THEN <<>> ELSE <<" ", "=", " ">> \o Initializers[i])

ScopedDecl(n, i, st) == expression(make_tokens(ScopedText(n, i), st).tokens, 1).node

\* function f() -> DECL           function f()
\* f()                             DECL
\* NAME                           end
\*                                f()
\*                                NAME
InFunction(n, i, block, st) ==
    ArrayNode(<< FuncDefNode("f", <<>>, <<>>,
                             IF block THEN ArrayNode(<<ScopedDecl(n, i, st)>>)
                             ELSE ScopedDecl(n, i, st),
                             ~block),
                 CallNode(AccessNode("f"), <<>>),
                 AccessNode(ScopedNames[n]) >>)

ScopedRun(place, n, i) ==
    /\ runs = 0
    /\ \E r \in {IF place = "root"
                 THEN run_text(ScopedText(n, i), St(tables, contexts, lists))
                 ELSE run(InFunction(n, i, place = "block", St(tables, contexts, lists)),
                          St(tables, contexts, lists))} :
       /\ tables' = r.st.tables
       /\ contexts' = r.st.contexts
       /\ lists' = r.st.lists
       /\ last' = [family |-> "scoped", prog |-> <<place, n, i>>, value |-> r.value,
                   error |-> r.error, exc |-> r.exc, tokens |-> <<>>]
       /\ runs' = runs + 1
       /\ UNCHANGED rts

NextScoped ==
    \E place \in {"root", "arrow", "block"}, n \in 1..Len(ScopedNames),
       i \in 1..Len(Initializers) : ScopedRun(place, n, i)

SpecScoped == Init /\ [][NextScoped]_vars

\* the tables other than the global and the locked one that bind the name
OwnTables(name) == {t \in 3..Len(tables) : name \in DOMAIN tables[t].symbols}

\* C20: a scoped declaration of NAME, with or without an initializer, binds
\* NAME in the locked table at the root and in the table of the function's
\* context inside a call, never in the global table; after the call the name
\* does not resolve from the root.
C20_ScopedBinding ==
    last.family = "scoped" =>
        /\ last.exc = ""
        /\ ~GlobalBound(ScopedNames[last.prog[2]])
        /\ IF last.prog[1] = "root"
           THEN /\ ScopedNames[last.prog[2]] \in DOMAIN tables[LOCKED].symbols
                /\ tables[GLOBAL] = InitTables[GLOBAL]
           ELSE /\ OwnTables(ScopedNames[last.prog[2]]) # {}
                /\ last.error = RTError("is not defined or not in this scope.")

-----------------------------------------------------------------------------
(* One function f, defined and called once on a freshly loaded interpreter.  *)
(* The expressions of the body are evaluated at the root first, so that the  *)
(* value of the call can be compared with theirs.                            *)

\* Ei NEWLINE function f() => Ei NEWLINE f()
ArrowRun(i) ==
    /\ runs = 0
    /\ Call("arrow", <<i>>,
            ArrayNode(<< CondExprs[i],
                         FuncDefNode("f", <<>>, <<>>, CondExprs[i], TRUE),
                         CallNode(AccessNode("f"), <<>>) >>))

\* Ei NEWLINE Ej NEWLINE function f() NEWLINE Ei NEWLINE return Ej NEWLINE end NEWLINE f()
BlockReturnRun(i, j) ==
    /\ runs = 0
    /\ Call("block", <<i, j>>,
            ArrayNode(<< CondExprs[i], CondExprs[j],
                         FuncDefNode("f", <<>>, <<>>,
                                     ArrayNode(<<CondExprs[i], ReturnNode(CondExprs[j])>>), FALSE),
                         CallNode(AccessNode("f"), <<>>) >>))

\* Ei NEWLINE function f() NEWLINE Ei NEWLINE end NEWLINE f()
BlockPlainRun(i) ==
    /\ runs = 0
    /\ Call("plain", <<i>>,
            ArrayNode(<< CondExprs[i],
                         FuncDefNode("f", <<>>, <<>>, ArrayNode(<<CondExprs[i]>>), FALSE),
                         CallNode(AccessNode("f"), <<>>) >>))

NextFun ==
    \/ \E i \in 1..Len(CondExprs) : ArrowRun(i) \/ BlockPlainRun(i)
    \/ \E i, j \in 1..Len(CondExprs) : BlockReturnRun(i, j)

SpecFun == Init /\ [][NextFun]_vars

\* the same value and, for two Arrays, the same elements
SameResult(v, w) ==
    /\ SameAs(v, w)
    /\ v.name = w.name
    /\ v.kind = "Array" =>
          /\ Len(lists[v.ref]) = Len(lists[w.ref])
          /\ \A k \in 1..Len(lists[v.ref]) : SameAs(lists[v.ref][k], lists[w.ref][k])

\* C21: a call of an arrow-form function yields the value of its body
\* expression, whatever kind of value that is; a call of a block-form function
\* yields the value of the return it executes, and Number null when the body
\* ends without a return.
C21_CallValue ==
    /\ last.family = "arrow" => Succeeded /\ SameResult(FinalValue, StatementValue(1))
    /\ last.family = "block" => Succeeded /\ SameResult(FinalValue, StatementValue(2))
    /\ last.family = "plain" => Succeeded /\ SameResult(FinalValue, Number_null)

-----------------------------------------------------------------------------
(* One product of a String literal and an integer, run on a freshly loaded   *)
(* interpreter.                                                              *)

MaxBelow == 3
MaxCopies == 7

Repeated ==
    << <<>>, <<"a">>, <<"b">>, <<"a", "b">>, <<"b", "a">>, <<"a", "a">>, <<" ">>,
       <<"a", "b", "c">>, <<"1">>, <<"a", " ", "b">> >>

IntLit(n) == IF n < 0 THEN UnaryOpNode("MINUS", NumLit(-n)) ELSE NumLit(n)

\* "S" * N
RepeatRun(s, n) ==
    /\ runs = 0
    /\ Call("repeat", <<s, n>>, ArrayNode(<<BinaryOpNode(StrLit(Repeated[s]), "MUL", IntLit(n))>>))

NextRepeat == \E s \in 1..Len(Repeated), n \in -MaxBelow..MaxCopies : RepeatRun(s, n)

SpecRepeat == Init /\ [][NextRepeat]_vars

RECURSIVE Copies(_, _)
Copies(s, n) == IF n <= 0 THEN <<>> ELSE s \o Copies(s, n - 1)

\* C22: for every String s and integer n, s * n is the String made of n copies
\* of s, the empty String when n <= 0.
C22_StringRepetition ==
    last.family = "repeat" =>
        /\ Succeeded
        /\ FinalValue.kind = "String"
        /\ FinalValue.str = Copies(Repeated[last.prog[1]], last.prog[2])

-----------------------------------------------------------------------------
(* One text "A ^ B ^ C" of three integer literals, lexed, parsed and run on  *)
(* a freshly loaded interpreter.                                             *)

MaxBase == 11
MaxExponent == 2

\* A ^ B ^ C
PowText(a, b, c) ==
    NatText(a) \o <<" ", "^", " ">> \o NatText(b) \o <<" ", "^", " ">> \o NatText(c)

PowRun(a, b, c) ==
    /\ runs = 0
    /\ \E r \in {run_text(PowText(a, b, c), St(tables, contexts, lists))} :
       /\ tables' = r.st.tables
       /\ contexts' = r.st.contexts
       /\ lists' = r.st.lists
       /\ last' = [family |-> "pow", prog |-> <<a, b, c>>, value |-> r.value, error |-> r.error,
                   exc |-> r.exc, tokens |-> make_tokens(PowText(a, b, c), St(tables, contexts, lists)).tokens]
       /\ runs' = runs + 1
       /\ UNCHANGED rts

NextPow == \E a \in 0..MaxBase, b, c \in 0..MaxExponent : PowRun(a, b, c)

SpecPow == Init /\ [][NextPow]_vars

\* C23: "a ^ b ^ c" is parsed as BinaryOp(BinaryOp(a, ^, b), ^, c) and
\* evaluates to (a ^ b) ^ c.
C23_PowLeftAssociative ==
    last.family = "pow" =>
        /\ parse(last.tokens).node =
              ArrayNode(<<BinaryOpNode(BinaryOpNode(NumLit(last.prog[1]), "POW", NumLit(last.prog[2])),
                                       "POW", NumLit(last.prog[3]))>>)
        /\ Succeeded
        /\ FinalValue.kind = "Number"
        /\ FinalValue.den = 1
        /\ FinalValue.num = IntPow(IntPow(last.prog[1], last.prog[2]), last.prog[3])

-----------------------------------------------------------------------------
(* One definition "function f(...) => 0" whose parameter list is a sequence  *)
(* of names, commas and default clauses, lexed, parsed and run on a freshly  *)
(* loaded interpreter.                                                       *)

MaxParts == 4

\* a    b    ,    = 1    = 2
ParamParts == << <<"a">>, <<"b">>, <<",">>, <<"=", " ", "1">>, <<"=", " ", "2">> >>

\* function f(PARTS) => 0
DefText(ps) ==
    <<"f", "u", "n", "c", "t", "i", "o", "n", " ", "f", "(">>
        \o Flatten([k \in 1..Len(ps) |-> ParamParts[ps[k]] \o <<" ">>])
        \o <<")", " ", "=", ">", " ", "0">>

DefRun(ps) ==
    /\ runs = 0
    /\ \E r \in {run_text(DefText(ps), St(tables, contexts, lists))} :
       /\ tables' = r.st.tables
       /\ contexts' = r.st.contexts
       /\ lists' = r.st.lists
       /\ last' = [family |-> "def", prog |-> ps, value |-> r.value, error |-> r.error,
                   exc |-> r.exc, tokens |-> <<>>]
       /\ runs' = runs + 1
       /\ UNCHANGED rts

NextDef == \E n \in 0..MaxParts : \E ps \in [1..n -> 1..Len(ParamParts)] : DefRun(ps)

SpecDef == Init /\ [][NextDef]_vars

\* C24: the Function value of every definition the parser accepts has at
\* least as many parameter names as defaults: each parameter takes at most one
\* default clause.
C24_DefaultsWithinNames ==
    (last.family = "def" /\ Succeeded) =>
        /\ FinalValue.kind = "Function"
        /\ Len(FinalValue.fn.arg_names) >= Len(FinalValue.fn.arg_defaults)

-----------------------------------------------------------------------------
(* One access "v / i" to a String or an Array, or one removal "v - i" from   *)
(* an Array, run on a freshly loaded interpreter.                            *)

MaxLength == 3
MaxIndex == 4

Letters == <<"a", "b", "c", "d", "e">>
\* "abc" and [10, 20, 30], cut to n characters or elements
Indexed(kind, n) ==
    IF kind = "String" THEN StrLit(SubSeq(Letters, 1, n))
    ELSE ArrayNode([k \in 1..n |-> NumLit(10 * k)])

\* V / I        V - I
IndexRun(kind, op, n, i) ==
    /\ runs = 0
    /\ kind = "String" => op = "DIV"
    /\ Call("index", <<kind, op, n, i>>,
            ArrayNode(<<BinaryOpNode(Indexed(kind, n), op, IntLit(i))>>))

NextIndex ==
    \E kind \in {"String", "Array"}, op \in {"DIV", "MINUS"}, n \in 0..MaxLength,
       i \in -MaxIndex..MaxIndex : IndexRun(kind, op, n, i)

SpecIndex == Init /\ [][NextIndex]_vars

\* [10, 20, 30] cut to n elements, without the element at index i
Without(n, i) == [k \in 1..(n - 1) |-> IF k <= i THEN 10 * k ELSE 10 * (k + 1)]

\* C25: for a String or Array v of length n, v / i and (Arrays) v - i yield an
\* RTError when i < 0 or i >= n, and the element at index i, respectively the
\* Array without it, when 0 <= i < n.
C25_IndexInRange ==
    last.family = "index" =>
        /\ last.exc = ""
        /\ IF 0 <= last.prog[4] /\ last.prog[4] < last.prog[3]
           THEN /\ Succeeded
                /\ CASE last.prog[1] = "String" ->
                            /\ FinalValue.kind = "String"
                            /\ FinalValue.str = <<Letters[last.prog[4] + 1]>>
                     [] last.prog[2] = "DIV" ->
                            /\ FinalValue.kind = "Number"
                            /\ FinalValue.num = 10 * (last.prog[4] + 1)
                     [] OTHER ->
                            /\ FinalValue.kind = "Array"
                            /\ Payloads(FinalValue) = Without(last.prog[3], last.prog[4])
           ELSE last.error.error_name = "Runtime Error"

-----------------------------------------------------------------------------
(* Two nested loops, run on a freshly loaded interpreter.  The inner loop    *)
(* counts j from 0 up to M and executes break or continue when j is K; the   *)
(* outer loop counts i from 0 up to N, and each of its iterations yields the *)
(* list [-1, inner loop].                                                    *)

MaxOuter == 2
MaxInner == 3

\* if j == K then SIGNAL else j
SignalAt(k, signal) ==
    IfNode(<<IfCase(BinaryOpNode(AccessNode("j"), "EE", NumLit(k)),
                    IF signal = "break" THEN BreakNode ELSE ContinueNode, FALSE)>>,
           ElseCase(AccessNode("j"), FALSE))

\* for V = 0 until LIMIT => BODY        while (var V = V + 1) < LIMIT => BODY
Loop(kind, v, limit, body) ==
    IF kind = "for" THEN ForNode(v, NumLit(0), NumLit(limit), NoNode, body, FALSE)
    ELSE WhileNode(BinaryOpNode(VarAssignNode(v, BinaryOpNode(AccessNode(v), "PLUS", NumLit(1))),
                                "LT", NumLit(limit)), body, FALSE)

\* var i = -1 NEWLINE OUTER => [var j = -1, INNER => if j == K then SIGNAL else j]
NestedRun(outer, inner, signal, n, m, k) ==
    /\ runs = 0
    /\ Call("nested", <<outer, inner, signal, n, m, k>>,
            ArrayNode(<< VarAssignNode("i", IntLit(-1)),
                         Loop(outer, "i", n,
                              ArrayNode(<< VarAssignNode("j", IntLit(-1)),
                                           Loop(inner, "j", m, SignalAt(k, signal)) >>)) >>))

NextNested ==
    \E outer, inner \in {"for", "while"}, signal \in {"break", "continue"},
       n \in 1..MaxOuter, m \in 1..MaxInner, k \in 0..MaxInner :
          NestedRun(outer, inner, signal, n, m, k)

SpecNested == Init /\ [][NextNested]_vars

\* the values of j an inner loop up to m yields when the signal comes at k
RECURSIVE Kept(_, _, _, _)
Kept(signal, j, m, k) ==
    IF j >= m \/ (signal = "break" /\ j = k) THEN <<>>
    ELSE IF j = k THEN Kept(signal, j + 1, m, k)
    ELSE <<j>> \o Kept(signal, j + 1, m, k)

\* C26: a break or continue executed in the inner loop acts on that loop only:
\* the inner loop yields the values before the break, or all but the one of
\* the iteration that continued, and the outer loop still makes every one of
\* its iterations.
C26_InnermostLoopOnly ==
    last.family = "nested" =>
        /\ Succeeded
        /\ last.value.kind = "Array"
        /\ FinalValue.kind = "Array"
        /\ Len(lists[FinalValue.ref]) = last.prog[4]
        /\ \A t \in 1..Len(lists[FinalValue.ref]) :
              /\ lists[FinalValue.ref][t].kind = "Array"
              /\ Len(lists[lists[FinalValue.ref][t].ref]) = 2
              /\ lists[lists[FinalValue.ref][t].ref][2].kind = "Array"
              /\ Payloads(lists[lists[FinalValue.ref][t].ref][2])
                    = Kept(last.prog[3], 0, last.prog[5], last.prog[6])

\* two outer iterations, each with an inner loop that a break ended at j = 1
C26_Witness ==
    /\ last.family = "nested"
    /\ last.prog = <<"for", "while", "break", 2, 3, 1>>
    /\ Succeeded
    /\ Len(lists[FinalValue.ref]) = 2
    /\ Payloads(lists[lists[FinalValue.ref][2].ref][2]) = <<0>>

-----------------------------------------------------------------------------
(* Two texts lexed on a freshly loaded interpreter: S, a comment, a newline  *)
(* and T, and the same text without the comment.                             *)

\* (nothing)   1   a   var a = 1   1 +   "s"
Sides ==
    << <<>>, <<"1">>, <<"a">>, VarDecl("a", <<"1">>), <<"1", " ", "+">>, Quoted(<<"s">>) >>

\* #   # c   # 1 + 2   # "
Comments ==
    << <<"#">>, <<"#", " ", "c">>, <<"#", " ", "1", " ", "+", " ", "2">>, <<"#", " ", "\"">> >>

\* S # c NEWLINE T
Commented(s, c, t) == Sides[s] \o <<" ">> \o Comments[c] \o <<"\n">> \o Sides[t]
\* S NEWLINE T
Uncommented(s, t) == Sides[s] \o <<" ">> \o <<"\n">> \o Sides[t]

\* last.tokens holds the tokens of the text with the comment, then those of
\* the text without it
CommentRun(s, c, t) ==
    /\ runs = 0
    /\ \E with \in {make_tokens(Commented(s, c, t), St(tables, contexts, lists))},
          without \in {make_tokens(Uncommented(s, t), St(tables, contexts, lists))} :
       /\ tables' = with.st.tables
       /\ contexts' = with.st.contexts
       /\ lists' = with.st.lists
       /\ last' = [family |-> "comment", prog |-> <<s, c, t>>, value |-> None,
                   error |-> with.error, exc |-> with.exc,
                   tokens |-> <<with.tokens, without.tokens>>]
       /\ runs' = runs + 1
       /\ UNCHANGED rts

NextComment ==
    \E s, t \in 1..Len(Sides), c \in 1..Len(Comments) : CommentRun(s, c, t)

SpecComment == Init /\ [][NextComment]_vars

\* C27: a comment takes only its own characters out of the token stream:
\* "S # c", a newline and T lex to the tokens of S, a newline and T, so the
\* newline after the comment still gives a NEWLINE token.
C27_CommentKeepsNewline ==
    last.family = "comment" =>
        /\ last.exc = ""
        /\ ~IsError(last.error)
        /\ last.tokens[1] = last.tokens[2]

-----------------------------------------------------------------------------
(* Lexer.make_tokens on one text, one pass of its while loop at a time, with *)
(* the positions of the tokens.  A Position is modelled by its idx.  The     *)
(* lexer has one Position object, self.pos, which advance changes in place;  *)
(* a token's pos_end is either a copy, with an idx of its own, or that very  *)
(* object, whose idx is the lexer's.                                         *)

\* 12   ab   var   "s"   ==   =>   !=   <=   >=   +   (
PosWords ==
    << <<"1", "2">>, <<"a", "b">>, <<"v", "a", "r">>, Quoted(<<"s">>), <<"=", "=">>, <<"=", ">">>,
       <<"!", "=">>, <<"<", "=">>, <<">", "=">>, <<"+">>, <<"(">> >>

MaxWords == 2

PosText(ws) == Flatten([k \in 1..Len(ws) |-> PosWords[ws[k]] \o <<" ">>])

\* the branches of make_tokens whose token is built with pos_end=self.pos:
\* make_number, make_identifier, make_string, make_not_equals, make_equals,
\* make_less_than, make_greater_than
SharesLexerPos(lx) ==
    lx.current_char \in DIGITS \cup LETTERS \cup {"\"", "!", "=", "<", ">"}

\* Token.__init__: pos_start is copied; pos_end is a copy of pos_start advanced
\* once when no pos_end is given (own_pos_end), and the object given otherwise
\* (shared; own_pos_end is then -1).  after is the position just after the
\* token's last character.
PosToken(type_, pos_start, shared, after) ==
    [type |-> type_, pos_start |-> pos_start, shared |-> shared,
     own_pos_end |-> IF shared THEN -1 ELSE pos_start + 1, after |-> after]

\* tok.pos_end.idx, read while the lexer is lx
pos_end(tok, lx) == IF tok.shared THEN lx.idx ELSE tok.own_pos_end

PosBegin(ws) ==
    /\ runs = 0
    /\ last' = [family |-> "pos", prog |-> ws, value |-> None, error |-> NoError, exc |-> "",
                tokens |-> <<>>, lexer |-> Lexer(PosText(ws)), done |-> FALSE]
    /\ runs' = 1
    /\ UNCHANGED <<tables, contexts, lists, rts>>

\* one pass of "while self.current_char is not None", or the EOF token after it
PosStep ==
    /\ runs = 1
    /\ last.family = "pos"
    /\ ~last.done
    /\ IF last.lexer.current_char = NoChar
       THEN last' = [last EXCEPT !.done = TRUE,
                        !.tokens = Append(@, PosToken("EOF", last.lexer.idx, FALSE,
                                                      last.lexer.idx + 1))]
       ELSE IF last.lexer.current_char \in {" ", "\t"}
       THEN last' = [last EXCEPT !.lexer = advance(@)]
       ELSE \E t \in {NextToken(last.lexer, St(tables, contexts, lists))} :
               last' = [last EXCEPT !.lexer = t.lx, !.error = t.error, !.exc = t.exc,
                           !.done = IsError(t.error) \/ t.exc # "",
                           !.tokens = Append(@, PosToken(t.tok.type, last.lexer.idx,
                                                         SharesLexerPos(last.lexer), t.lx.idx))]
    /\ UNCHANGED <<tables, contexts, lists, runs, rts>>

NextPos ==
    \/ \E n \in 1..MaxWords : \E ws \in [1..n -> 1..Len(PosWords)] : PosBegin(ws)
    \/ PosStep

SpecPos == Init /\ [][NextPos]_vars

\* C28: a token's pos_end does not move while the lexer goes on: at every
\* moment it is the position just after the token's last character.
C28_PositionsFrozen ==
    last.family = "pos" =>
        \A k \in 1..Len(last.tokens) : pos_end(last.tokens[k], last.lexer) = last.tokens[k].after

-----------------------------------------------------------------------------
(* Two nested loops whose inner body calls a function f(j); f, or a function *)
(* g that f calls, executes break or continue outside any loop when its      *)
(* argument is K, and otherwise goes on to bind the global "seen".           *)

\* function NAME(x) NEWLINE if x == K then SIGNAL NEWLINE var seen = x NEWLINE end
Signalling(name, k, signal) ==
    FuncDefNode(name, <<"x">>, <<>>,
                ArrayNode(<< IfNode(<<IfCase(BinaryOpNode(AccessNode("x"), "EE", NumLit(k)),
                                             IF signal = "break" THEN BreakNode ELSE ContinueNode,
                                             FALSE)>>, NoNode),
                             VarAssignNode("seen", AccessNode("x")) >>), FALSE)

\* function f(x) NEWLINE g(x) NEWLINE var seen = x + 10 NEWLINE end
Relaying ==
    FuncDefNode("f", <<"x">>, <<>>,
                ArrayNode(<< CallNode(AccessNode("g"), <<AccessNode("x")>>),
                             VarAssignNode("seen", BinaryOpNode(AccessNode("x"), "PLUS",
                                                                NumLit(10))) >>), FALSE)

\* the definitions, then
\* var i = -1 NEWLINE OUTER => [var j = -1, INNER => [f(j), j]]
EscapeRun(deep, outer, inner, signal, n, m, k) ==
    /\ runs = 0
    /\ Call("escape", <<deep, outer, inner, signal, n, m, k>>,
            ArrayNode((IF deep THEN <<Signalling("g", k, signal), Relaying>>
                       ELSE <<Signalling("f", k, signal)>>)
                      \o << VarAssignNode("i", IntLit(-1)),
                            Loop(outer, "i", n,
                                 ArrayNode(<< VarAssignNode("j", IntLit(-1)),
                                              Loop(inner, "j", m,
                                                   ArrayNode(<< CallNode(AccessNode("f"),
                                                                         <<AccessNode("j")>>),
                                                                AccessNode("j") >>)) >>)) >>))

NextEscape ==
    \E deep \in BOOLEAN, outer, inner \in {"for", "while"}, signal \in {"break", "continue"},
       n \in 1..MaxOuter, m \in 1..MaxInner, k \in 0..MaxInner :
          EscapeRun(deep, outer, inner, signal, n, m, k)

SpecEscape == Init /\ [][NextEscape]_vars

\* the second elements of the pairs an inner loop has yielded
Seconds(array) == [q \in 1..Len(lists[array.ref]) |-> lists[lists[array.ref][q].ref][2].num]

\* C29: a break or continue executed in a function body outside any loop
\* passes the call boundary: the call does not complete (the statement after
\* it in the function and the rest of the caller's iteration are skipped), and
\* the innermost loop around the call ends, or goes on with its next
\* iteration, while the loop around that one makes all its iterations.
C29_SignalLeavesCall ==
    last.family = "escape" =>
        /\ Succeeded
        /\ last.value.kind = "Array"
        /\ FinalValue.kind = "Array"
        /\ Len(lists[FinalValue.ref]) = last.prog[5]
        /\ \A t \in 1..Len(lists[FinalValue.ref]) :
              /\ lists[FinalValue.ref][t].kind = "Array"
              /\ Len(lists[lists[FinalValue.ref][t].ref]) = 2
              /\ lists[lists[FinalValue.ref][t].ref][2].kind = "Array"
              /\ Seconds(lists[lists[FinalValue.ref][t].ref][2])
                    = Kept(last.prog[4], 0, last.prog[6], last.prog[7])
        /\ IF Kept(last.prog[4], 0, last.prog[6], last.prog[7]) = <<>>
           THEN ~GlobalBound("seen")
           ELSE /\ GlobalBound("seen")
                /\ tables[GLOBAL].symbols["seen"].num =
                      Kept(last.prog[4], 0, last.prog[6], last.prog[7])
                          [Len(Kept(last.prog[4], 0, last.prog[6], last.prog[7]))]
                      + (IF last.prog[1] THEN 10 ELSE 0)

\* g, called by f, executed continue at j = 1 of three inner iterations
C29_Witness ==
    /\ last.family = "escape"
    /\ last.prog = <<TRUE, "while", "for", "continue", 2, 3, 1>>
    /\ Succeeded
    /\ Len(lists[FinalValue.ref]) = 2
    /\ Seconds(lists[lists[FinalValue.ref][2].ref][2]) = <<0, 2>>
    /\ tables[GLOBAL].symbols["seen"].num = 12

-----------------------------------------------------------------------------
(* One block-form for loop whose body counts its iterations in the global    *)
(* "count" and may rebind the loop variable, run on a freshly loaded         *)
(* interpreter.                                                              *)

Counting == VarAssignNode("count", BinaryOpNode(AccessNode("count"), "PLUS", NumLit(1)))

\* (nothing)   var i = 0   var i = i + 1   var i = 9   ... continue
LoopBodies ==
    << <<Counting>>,
       <<VarAssignNode("i", NumLit(0)), Counting>>,
       <<VarAssignNode("i", BinaryOpNode(AccessNode("i"), "PLUS", NumLit(1))), Counting>>,
       <<VarAssignNode("i", NumLit(9)), Counting>>,
       <<Counting, ContinueNode>> >>

\* var count = 0 NEWLINE for i = S until E step T then NEWLINE BODY NEWLINE end NEWLINE count
CountRun(s, e, t, b) ==
    /\ runs = 0
    /\ StepOf[t] # 0
    /\ Call("count", <<s, e, t, b>>,
            ArrayNode(<< VarAssignNode("count", NumLit(0)),
                         ForNode("i", NumLit(s), NumLit(e), StepNodes[t],
                                 ArrayNode(LoopBodies[b]), TRUE),
                         AccessNode("count") >>))

NextCount ==
    \E s, e \in 0..MaxFor, t \in 1..Len(StepNodes), b \in 1..Len(LoopBodies) : CountRun(s, e, t, b)

SpecCount == Init /\ [][NextCount]_vars

\* max(0, ceil((e - s) / t)) for t # 0
Passes(s, e, t) ==
    IF t > 0 THEN (IF e > s THEN (e - s + t - 1) \div t ELSE 0)
    ELSE (IF s > e THEN (s - e - t - 1) \div (-t) ELSE 0)

\* C30: a for loop from S to E by T # 0 whose body ends without error, return
\* or break makes max(0, ceil((E - S) / T)) iterations and ends, whatever the
\* body binds the loop variable to.
C30_IterationCount ==
    last.family = "count" =>
        /\ Succeeded
        /\ last.value.kind = "Array"
        /\ FinalValue.kind = "Number"
        /\ FinalValue.py = "int"
        /\ FinalValue.num = Passes(last.prog[1], last.prog[2], StepOf[last.prog[3]])

\* "for i = 0 until 3 step 2", with a body that sets i back to 0, has made 2
\* iterations
C30_Witness ==
    /\ last.family = "count"
    /\ last.prog = <<0, 3, 3, 2>>
    /\ Succeeded
    /\ FinalValue.num = 2

=============================================================================
